---- MODULE Spec2Model ----
(***************************************************************************)
(* Pantry ledger, shadow planner, deficit calculator and cook transaction  *)
(* of meal_prep (tools/pantry_tools.py, tools/meal_plan_tools.py,          *)
(* tools/textnorm.py).                                                     *)
(*                                                                         *)
(* Strings are modelled as strings.  Ingredient and dish names are drawn   *)
(* from lower-case words separated by blanks, so str.lower() leaves them   *)
(* unchanged; whitespace stripping, tokenising, suffix folding and the     *)
(* "<name> (<unit>)" pantry key format are computed character by           *)
(* character.  canonical_key is modelled on its fallback path (no spaCy    *)
(* pipeline, no inflect engine installed).                                 *)
(***************************************************************************)
EXTENDS Integers, Sequences, FiniteSets, TLC

VARIABLES
    items,        \* _PantryDB.items : in-memory ledger, insertion-ordered dict
    disk,         \* data/pantry.json as last written by _PantryDB._save
    rules,        \* _ALT["rules"] : unit-mirror rules (static configuration)
    catalog,      \* data/recipe.json as returned by cuisine_tools._load
    constraints,  \* memory.memories["constraints"]
    plan,         \* memory.memories["plan"] : day number -> meal -> dish
    calc_log,     \* memory.memories["calc_log"]
    planner_log,  \* memory.memories["planner_log"]
    shopping_list,\* memory.memories["shopping_list"]
    ret,          \* what the last tool call returned (and observed)
    hist,         \* inputs and outputs of the last two fresh auto_plan calls
    nops          \* number of tool calls made so far

vars == <<items, disk, rules, catalog, constraints, plan, calc_log,
          planner_log, shopping_list, ret, hist, nops>>

\* ------------------------------------------------------------------ bounds
MaxOps == 3

\* ------------------------------------------------------------- characters
\* Characters in code-point order (blank < parentheses < letters).
Chars == " ()abcdefghijklmnopqrstuvwxyz"

CharAt(s, i) == SubSeq(s, i, i)

CharRank(c) == CHOOSE i \in 1..Len(Chars) : CharAt(Chars, i) = c

RECURSIVE StrLessFrom(_, _, _)
StrLessFrom(a, b, i) ==
    IF i > Len(b) THEN FALSE
    ELSE IF i > Len(a) THEN TRUE
    ELSE IF CharAt(a, i) = CharAt(b, i) THEN StrLessFrom(a, b, i + 1)
    ELSE CharRank(CharAt(a, i)) < CharRank(CharAt(b, i))

\* Python's str.__lt__
StrLess(a, b) == StrLessFrom(a, b, 1)

EndsWith(s, suf) ==
    /\ Len(s) >= Len(suf)
    /\ SubSeq(s, Len(s) - Len(suf) + 1, Len(s)) = suf

DropLast(s, n) == SubSeq(s, 1, Len(s) - n)

IsVowel(c) == c \in {"a", "e", "i", "o", "u"}

\* a local variable: In applied to the value v, which is computed once
Bind(v, In(_)) == In(v)

\* a list comprehension: the sequence with every element evaluated once
AsList(f) == f \o <<>>

RECURSIVE LStrip(_)
LStrip(s) == IF Len(s) > 0 /\ CharAt(s, 1) = " " THEN LStrip(Tail(s)) ELSE s

RECURSIVE RStrip(_)
RStrip(s) ==
    IF Len(s) > 0 /\ CharAt(s, Len(s)) = " " THEN RStrip(DropLast(s, 1)) ELSE s

\* str.strip()
Strip(s) == LStrip(RStrip(s))

\* index of the first occurrence of character c in s at or after i, 0 if none
RECURSIVE FindChar(_, _, _)
FindChar(s, c, i) ==
    IF i > Len(s) THEN 0
    ELSE IF CharAt(s, i) = c THEN i
    ELSE FindChar(s, c, i + 1)

\* re.split(r"\s+", s) without the empty tokens
RECURSIVE SplitWords(_)
SplitWords(s) ==
    Bind(LStrip(s), LAMBDA t :
    Bind(FindChar(t, " ", 1), LAMBDA p :
      IF Len(t) = 0 THEN <<>>
      ELSE IF p = 0 THEN <<t>>
      ELSE <<SubSeq(t, 1, p - 1)>> \o SplitWords(SubSeq(t, p + 1, Len(t)))))

RECURSIVE JoinWords(_)
JoinWords(ws) ==
    IF Len(ws) = 0 THEN ""
    ELSE IF Len(ws) = 1 THEN ws[1]
    ELSE ws[1] \o " " \o JoinWords(Tail(ws))

\* ------------------------------------------------------------ textnorm.py
ChiliForms == {"chili", "chilie", "chilies", "chily", "chilli", "chillie",
               "chillies"}

_fold_token_spelling(tok) ==
    Bind(Strip(tok), LAMBDA t : IF t \in ChiliForms THEN "chili" ELSE t)

DROP_DESCRIPTORS ==
    {"dry", "powdered", "grated", "minced", "crushed", "sliced", "chopped",
     "large", "small", "medium", "boneless", "skinless", "uncooked",
     "unsalted", "salted", "sweetened", "unsweetened", "canned", "frozen",
     "ripe", "peeled", "whole"}

_singular_fallback(word) ==
    Bind(Strip(word), LAMBDA w :
      IF w = "" THEN w
      ELSE IF w \in {"leaves", "leave"} THEN "leaf"
      ELSE IF Len(w) >= 4 /\ EndsWith(w, "ies")
              /\ ~IsVowel(CharAt(w, Len(w) - 3))
           THEN DropLast(w, 3) \o "y"
      ELSE IF \E suf \in {"ches", "shes", "xes", "zes", "ses"} : EndsWith(w, suf)
           THEN DropLast(w, 2)
      ELSE IF EndsWith(w, "s") /\ Len(w) > 3 THEN DropLast(w, 1)
      ELSE w)

\* lower-case, blanks collapsed and stripped
_preclean(text) == JoinWords(SplitWords(text))

canonical_key(name) ==
    Bind(_preclean(name), LAMBDA s :
    Bind(SelectSeq(SplitWords(s), LAMBDA t : t \notin DROP_DESCRIPTORS),
         LAMBDA kept :
    Bind(AsList([i \in 1..Len(kept) |-> _fold_token_spelling(kept[i])]),
         LAMBDA toks :
      IF s = "" THEN s
      ELSE IF Len(toks) = 0 THEN ""
      ELSE IF Len(toks) = 1 THEN _singular_fallback(toks[1])
      ELSE Strip(toks[Len(toks) - 1] \o " "
                 \o _singular_fallback(toks[Len(toks)])))))

MassLabels == {"g", "gram", "grams", "gms", "kg", "kilogram", "kilograms"}
VolumeLabels == {"ml", "milliliter", "milliliters", "millilitre",
                 "millilitres", "l", "liter", "liters", "litre", "litres"}
CountLabels == {"count", "pc", "pcs", "piece", "pieces"}

\* returns <<canonical name, unit family>>
canonical_and_unit(item, unit) ==
    Bind(Strip(unit), LAMBDA u :
      <<canonical_key(item),
        IF u \in MassLabels THEN "g"
        ELSE IF u \in VolumeLabels THEN "ml"
        ELSE "count">>)

\* ------------------------------------------------------ insertion-ordered dict
\* A Python dict is a sequence of [k, v] records in insertion order.
DictHas(d, k) == \E i \in 1..Len(d) : d[i].k = k

DictGet(d, k, dflt) ==
    IF DictHas(d, k) THEN d[CHOOSE i \in 1..Len(d) : d[i].k = k].v ELSE dflt

DictSet(d, k, v) ==
    IF DictHas(d, k)
    THEN AsList([i \in 1..Len(d) |->
                    IF d[i].k = k THEN [k |-> k, v |-> v] ELSE d[i]])
    ELSE Append(d, [k |-> k, v |-> v])

DictDel(d, k) == SelectSeq(d, LAMBDA e : e.k # k)

DictKeys(d) == {d[i].k : i \in 1..Len(d)}

\* --------------------------------------------------------- pantry_tools.py
_canon_item(s) == Strip(s)

_norm_unit(u) ==
    Bind(Strip(u), LAMBDA s :
      IF u = "" THEN "count"
      ELSE IF s \in {"kg", "kilogram", "kilograms"} THEN "g"
      ELSE IF s \in {"g", "gram", "grams", "gms"} THEN "g"
      ELSE IF s \in {"l", "litre", "liter", "liters", "litres"} THEN "ml"
      ELSE IF s \in {"ml", "millilitre", "milliliter", "milliliters",
                     "millilitres"} THEN "ml"
      ELSE IF s \in CountLabels THEN "count"
      ELSE s)

_key(item, unit) == _canon_item(item) \o " (" \o _norm_unit(unit) \o ")"

\* rounding of n/d with ties away from zero instead of ties to even
PyRound_half_away(n, d) ==
    LET q == n \div d
        r == n - q * d
    IN IF 2 * r < d THEN q
       ELSE IF 2 * r > d THEN q + 1
       ELSE IF n < 0 THEN q ELSE q + 1

\* Python's round() of the rational n/d (d > 0): nearest integer, ties to even
PyRound(n, d) ==
    LET q == n \div d
        r == n - q * d
    IN IF 2 * r < d THEN q
       ELSE IF 2 * r > d THEN q + 1
       ELSE IF q % 2 = 0 THEN q ELSE q + 1

\* value = n/d; step = 0 stands for a missing "round" field
_round_to_step(n, d, step) ==
    IF step <= 0 THEN PyRound(n, d)
    ELSE PyRound(n, d * step) * step

_alt_transforms_for(rls, item, unit_from) ==
    SelectSeq(rls, LAMBDA r : /\ _canon_item(r.item) = _canon_item(item)
                              /\ _norm_unit(r.from) = _norm_unit(unit_from))

\* _bump with the zero case left in the store (drops the key below zero only)
_bump_keeps_zero(its, item, unit, delta) ==
    Bind(_key(item, unit), LAMBDA k :
    Bind(DictGet(its, k, 0) + delta, LAMBDA new_val :
      IF new_val < 0 THEN DictDel(its, k) ELSE DictSet(its, k, new_val)))

_bump(its, item, unit, delta) ==
    Bind(_key(item, unit), LAMBDA k :
    Bind(DictGet(its, k, 0), LAMBDA current :
    Bind(current + delta, LAMBDA new_val :
      IF new_val <= 0 THEN DictDel(its, k) ELSE DictSet(its, k, new_val))))

\* _set_exact that adds qty to what the entry holds
_set_exact_adds(its, item, unit, qty) == _bump(its, item, unit, qty)

_set_exact(its, item, unit, qty) ==
    Bind(_key(item, unit), LAMBDA k :
      IF qty <= 0 THEN DictDel(its, k) ELSE DictSet(its, k, qty))

RECURSIVE MirrorDeltaFrom(_, _, _, _, _)
MirrorDeltaFrom(its, rs, i, item, delta) ==
    IF i > Len(rs) THEN its
    ELSE Bind(_round_to_step(delta * rs[i].num, rs[i].den, rs[i].round),
              LAMBDA d_to :
         Bind(IF d_to # 0 THEN _bump(its, item, _norm_unit(rs[i].to), d_to)
              ELSE its,
              LAMBDA nxt : MirrorDeltaFrom(nxt, rs, i + 1, item, delta)))

_mirror_delta(its, rls, item, unit_from, delta) ==
    IF delta = 0 THEN its
    ELSE MirrorDeltaFrom(its, _alt_transforms_for(rls, item, unit_from), 1,
                         item, delta)

RECURSIVE MirrorSetFrom(_, _, _, _, _)
MirrorSetFrom(its, rs, i, item, qty) ==
    IF i > Len(rs) THEN its
    ELSE Bind(_set_exact(its, item, _norm_unit(rs[i].to),
                         _round_to_step(qty * rs[i].num, rs[i].den,
                                        rs[i].round)),
              LAMBDA nxt : MirrorSetFrom(nxt, rs, i + 1, item, qty))

_mirror_set(its, rls, item, unit_from, qty) ==
    MirrorSetFrom(its, _alt_transforms_for(rls, item, unit_from), 1, item, qty)

\* A _PantryDB is [items, disk]; _save copies the in-memory dict to the file.
_save(db) == [items |-> db.items, disk |-> db.items]

NoQty == -999   \* quantity None / omitted

\* Each CRUD method returns [db, out]: the store afterwards and a status
\* tag standing for the returned message.
add(db, rls, item0, qty, unit0) ==
    Bind(_canon_item(item0), LAMBDA item :
    Bind(_norm_unit(unit0), LAMBDA unit :
      IF qty <= 0 THEN [db |-> db, out |-> "invalid"]
      ELSE [db |-> _save([db EXCEPT !.items =
                            _mirror_delta(_bump(db.items, item, unit, qty),
                                          rls, item, unit, qty)]),
            out |-> "added"]))

update(db, rls, item0, qty, unit0) ==
    Bind(_canon_item(item0), LAMBDA item :
    Bind(_norm_unit(unit0), LAMBDA unit :
      IF qty < 0 THEN [db |-> db, out |-> "invalid"]
      ELSE [db |-> _save([db EXCEPT !.items =
                            _mirror_set(_set_exact(db.items, item, unit, qty),
                                        rls, item, unit, qty)]),
            out |-> "set"]))

\* remove that stores existing - qty as it is: no min(qty, existing), no
\* deletion at zero
remove_unfloored(db, rls, item0, qty, unit0) ==
    Bind(_canon_item(item0), LAMBDA item :
    Bind(_norm_unit(unit0), LAMBDA unit :
    Bind(_key(item, unit), LAMBDA k :
    Bind(DictGet(db.items, k, 0), LAMBDA existing :
    Bind(IF qty = NoQty THEN 0 - existing ELSE 0 - qty, LAMBDA delta :
      IF ~DictHas(db.items, k) THEN [db |-> db, out |-> "not_found"]
      ELSE IF qty # NoQty /\ qty <= 0 THEN [db |-> db, out |-> "invalid"]
      ELSE [db |-> _save([db EXCEPT !.items =
                            _mirror_delta(DictSet(db.items, k, existing + delta),
                                          rls, item, unit, delta)]),
            out |-> IF qty = NoQty THEN "removed_all" ELSE "removed"])))))

remove(db, rls, item0, qty, unit0) ==
    Bind(_canon_item(item0), LAMBDA item :
    Bind(_norm_unit(unit0), LAMBDA unit :
    Bind(_key(item, unit), LAMBDA k :
    Bind(DictGet(db.items, k, 0), LAMBDA existing :
    Bind(IF qty = NoQty THEN 0 - existing
         ELSE 0 - (IF qty < existing THEN qty ELSE existing), LAMBDA delta :
      IF ~DictHas(db.items, k) THEN [db |-> db, out |-> "not_found"]
      ELSE IF qty # NoQty /\ qty <= 0 THEN [db |-> db, out |-> "invalid"]
      ELSE [db |-> _save([db EXCEPT !.items =
                            _mirror_delta(_bump(db.items, item, unit, delta),
                                          rls, item, unit, delta)]),
            out |-> IF qty = NoQty THEN "removed_all" ELSE "removed"])))))

\* ------------------------------------------------------ meal_plan_tools.py
_normalize_unit(u) ==
    Bind(Strip(u), LAMBDA s :
      IF u = "" THEN "count"
      ELSE IF s \in MassLabels THEN "g"
      ELSE IF s \in VolumeLabels THEN "ml"
      ELSE IF s \in CountLabels THEN "count"
      ELSE s)

_normalise(name) ==
    Bind(Strip(name), LAMBDA n :
      IF EndsWith(n, "ies") THEN DropLast(n, 3) \o "y"
      ELSE IF EndsWith(n, "s") /\ Len(n) > 3 THEN DropLast(n, 1)
      ELSE n)

\* "<name> (<unit>)" -> <<name, unit>>; names hold no parentheses, so the
\* pattern matches exactly when the key ends in a non-empty "(...)" group.
_split_pantry_key(key) ==
    Bind(Strip(key), LAMBDA t :
    Bind(FindChar(t, "(", 1), LAMBDA p :
      IF p = 0 \/ ~EndsWith(t, ")") \/ Len(t) < p + 2
      THEN <<_normalise(IF p = 0 THEN key
                        ELSE SubSeq(key, 1, FindChar(key, "(", 1) - 1)),
             "count">>
      ELSE <<_normalise(Strip(SubSeq(t, 1, p - 1))),
             _normalize_unit(SubSeq(t, p + 1, Len(t) - 1))>>))

\* The shadow pantry is a dict keyed by <<canonical name, unit family>>.
RECURSIVE SnapshotFrom(_, _, _)
SnapshotFrom(its, i, shadow) ==
    IF i > Len(its) THEN shadow
    ELSE Bind(_split_pantry_key(its[i].k), LAMBDA bu :
         Bind(canonical_and_unit(bu[1], bu[2]), LAMBDA cu :
         Bind(DictSet(shadow, cu, DictGet(shadow, cu, 0) + its[i].v),
              LAMBDA nxt : SnapshotFrom(its, i + 1, nxt))))

_shadow_pantry_snapshot_canon(its) == SnapshotFrom(its, 1, <<>>)

\* [<<canonical name, unit family, qty>>, ...]
_recipe_requirements_canon(rec) ==
    Bind(SelectSeq(rec.ingredients,
                   LAMBDA ing : Strip(ing.item) # "" /\ ing.quantity > 0),
         LAMBDA good :
      AsList([i \in 1..Len(good) |->
         Bind(canonical_and_unit(Strip(good[i].item),
                                 _normalize_unit(good[i].unit)),
              LAMBDA cu : <<cu[1], cu[2], good[i].quantity>>)]))

_can_fulfill_strict_canon(rec, shadow) ==
    Bind(_recipe_requirements_canon(rec), LAMBDA req :
      \A i \in 1..Len(req) :
         ~(DictGet(shadow, <<req[i][1], req[i][2]>>, 0) < req[i][3]))

RECURSIVE DeductFrom(_, _, _)
DeductFrom(req, i, shadow) ==
    IF i > Len(req) THEN shadow
    ELSE Bind(<<req[i][1], req[i][2]>>, LAMBDA key :
         Bind(DictGet(shadow, key, 0) - req[i][3], LAMBDA left :
         Bind(DictSet(shadow, key, IF left > 0 THEN left ELSE 0),
              LAMBDA nxt : DeductFrom(req, i + 1, nxt))))

_apply_deduction_canon(rec, shadow) ==
    DeductFrom(_recipe_requirements_canon(rec), 1, shadow)

\* list.sort(key=...): stable; Less is the strict order of the sort keys
StableSort(s, Less(_, _)) ==
    LET rank(i) == Cardinality({j \in 1..Len(s) :
                        \/ Less(s[j], s[i])
                        \/ (~Less(s[i], s[j]) /\ j < i)}) + 1
    IN AsList([p \in 1..Len(s) |-> s[CHOOSE i \in 1..Len(s) : rank(i) = p]])

TotalTime(rec) == rec.prep_time_min + rec.cook_time_min

\* the minimum have/need over the requirement lines as <<have, need>>;
\* <<1, 0>> is float("inf")
MinRatio(rec, shadow0) ==
    Bind(_recipe_requirements_canon(rec), LAMBDA req :
    Bind(AsList([i \in 1..Len(req) |->
                    DictGet(shadow0, <<req[i][1], req[i][2]>>, 0)]),
         LAMBDA have :
      IF Len(req) = 0 THEN <<1, 0>>
      ELSE Bind(CHOOSE i \in 1..Len(req) :
                   \A j \in 1..Len(req) :
                      have[i] * req[j][3] <= have[j] * req[i][3],
                LAMBDA m : <<have[m], req[m][3]>>)))

\* <<min_ratio, total_time, name>>
_tightness_key(rec, shadow0) ==
    <<MinRatio(rec, shadow0), TotalTime(rec), rec.name>>

RatioLess(a, b) == a[1] * b[2] < b[1] * a[2]

TightLess(x, y) ==
    \/ RatioLess(x[1], y[1])
    \/ /\ ~RatioLess(y[1], x[1])
       /\ \/ x[2] < y[2]
          \/ (x[2] = y[2] /\ StrLess(x[3], y[3]))

\* the coverable candidates left in candidate order, not sorted by tightness
_coverable_once_unsorted(candidates, shadow0) ==
    SelectSeq(candidates, LAMBDA r : _can_fulfill_strict_canon(r, shadow0))

_coverable_once_sorted(candidates, shadow0) ==
    StableSort(SelectSeq(candidates,
                         LAMBDA r : _can_fulfill_strict_canon(r, shadow0)),
               LAMBDA a, b : TightLess(_tightness_key(a, shadow0),
                                       _tightness_key(b, shadow0)))

_recipe_eligible_by_filters(rec, c) ==
    /\ (c.cuisine # "" => Strip(rec.cuisine) = c.cuisine)
    /\ (c.diet # "" => Strip(rec.diet) \in {c.diet, "any", ""})
    /\ (c.max_time # 0 => ~(TotalTime(rec) > c.max_time))

\* every recipe of the catalog taken as a candidate, filters not applied
_eligible_recipes_all(cat, c) == cat

_eligible_recipes(cat, c) ==
    SelectSeq(cat, LAMBDA r : _recipe_eligible_by_filters(r, c))

_slot_names(meals) ==
    IF meals = 2 THEN <<"Breakfast", "Lunch">>
    ELSE IF meals = 1 THEN <<"Dinner">>
    ELSE <<"Breakfast", "Lunch", "Dinner">>

_load_recipe_by_name(cat, name) ==
    Bind(SelectSeq(cat, LAMBDA r : Strip(r.name) = Strip(name)), LAMBDA hits :
      IF Len(hits) = 0 THEN <<>> ELSE <<hits[1]>>)

\* ---------------------------------------------------------------- auto_plan
\* index of the first element of s satisfying P, 0 if there is none
FirstIdx(s, P(_)) ==
    IF \E i \in 1..Len(s) : P(s[i])
    THEN CHOOSE i \in 1..Len(s) : P(s[i]) /\ \A j \in 1..(i - 1) : ~P(s[j])
    ELSE 0

\* the consecutive-repeat test switched off
RepeatBlocked_never(c, prev, name_l) == FALSE

RepeatBlocked(c, prev, name_l) ==
    (~c.allow_repeats) /\ prev # "" /\ name_l = prev

\* dict.setdefault / item assignment on the plan rows (meal -> dish)
RowSetDefault(row, meal, v) ==
    IF meal \in DOMAIN row THEN row ELSE row @@ (meal :> v)

RowSet(row, meal, v) == (meal :> v) @@ row

RowGet(row, meal) == IF meal \in DOMAIN row THEN row[meal] ELSE ""

PlanSetDefault(pl, day) ==
    IF day \in DOMAIN pl THEN pl ELSE pl @@ (day :> <<>>)

\* the stored plan carried into every call, fresh or continuing
InitialPlan_keeps_stored(mem_plan, cont) == mem_plan

\* plan carried into the call: the stored plan when continuing, else empty
InitialPlan(mem_plan, cont) == IF cont THEN mem_plan ELSE <<>>

\* the day loop begun at day 1 whatever the stored plan holds
StartAt_from_one(pl, cont) == 1

StartAt(pl, cont) ==
    IF cont /\ DOMAIN pl # {}
    THEN (CHOOSE n \in DOMAIN pl : \A m \in DOMAIN pl : m <= n) + 1
    ELSE 1

\* the attempted count taken one day further than the day of the stop
AttemptedOnStop_next_day(start_at, day_i, nmeals) ==
    (day_i - start_at + 2) * nmeals

\* number of slots reported as attempted when the call stops at day_i
AttemptedOnStop(start_at, day_i, nmeals) == (day_i - start_at + 1) * nmeals

\* the stop branch without its return: the slot is left empty and the loop
\* goes on to the next slot
StopHere_goes_on(st, start_at, day, meal, nmeals) ==
    [st EXCEPT !.plan[day] = RowSetDefault(@, meal, ""),
               !.visited = Append(@, <<day, meal, "">>)]

\* the "assign or stop" branch taken when no dish was picked
StopHere(st, start_at, day, meal, nmeals) ==
    [st EXCEPT !.plan[day] = RowSetDefault(@, meal, ""),
               !.stopped = TRUE,
               !.attempted = AttemptedOnStop(start_at, day, nmeals),
               !.visited = Append(@, <<day, meal, "">>)]

\* the assignment made without its calc_log entry
Assign_unlogged(st, c, day, meal, rec, reason) ==
    Bind(Strip(rec.name), LAMBDA dish :
      [st EXCEPT !.plan[day] = RowSet(@, meal, dish),
                 !.shadow = IF c.mode = "pantry-first-strict"
                            THEN _apply_deduction_canon(rec, @) ELSE @,
                 !.once_left = @ \ {dish},
                 !.prev = dish,
                 !.filled = @ + 1,
                 !.visited = Append(@, <<day, meal, dish>>)])

Assign(st, c, day, meal, rec, reason) ==
    Bind(Strip(rec.name), LAMBDA dish :
      [st EXCEPT !.plan[day] = RowSet(@, meal, dish),
                 !.shadow = IF c.mode = "pantry-first-strict"
                            THEN _apply_deduction_canon(rec, @) ELSE @,
                 !.once_left = @ \ {dish},
                 !.prev = dish,
                 !.filled = @ + 1,
                 !.visited = Append(@, <<day, meal, dish>>),
                 !.log = Append(@, [slot |-> <<day, meal>>, dish |-> dish,
                                    reason |-> reason])])

\* pass 1 (once-each), then pass 2 (repeats allowed), else stop
StrictPick(st, c, cands, once_list, start_at, day, meal, nmeals) ==
    Bind(FirstIdx(once_list,
            LAMBDA r : /\ Strip(r.name) \in st.once_left
                       /\ ~RepeatBlocked(c, st.prev, Strip(r.name))
                       /\ _can_fulfill_strict_canon(r, st.shadow)),
         LAMBDA p1 :
      IF p1 # 0
      THEN Assign(st, c, day, meal, once_list[p1],
                  "100% pantry coverage (once-each pass)")
      ELSE Bind(FirstIdx(cands,
                   LAMBDA r : /\ ~RepeatBlocked(c, st.prev, Strip(r.name))
                              /\ _can_fulfill_strict_canon(r, st.shadow)),
                LAMBDA p2 :
             IF p2 # 0
             THEN Assign(st, c, day, meal, cands[p2], "100% pantry coverage")
             ELSE StopHere(st, start_at, day, meal, nmeals)))

FreeformPick(st, c, cands, start_at, day, meal, nmeals) ==
    Bind(FirstIdx(cands,
            LAMBDA r : ~RepeatBlocked(c, st.prev, Strip(r.name))),
         LAMBDA pf :
      IF pf # 0
      THEN Assign(st, c, day, meal, cands[pf], "freeform pick")
      ELSE StopHere(st, start_at, day, meal, nmeals))

SlotStep(st, c, cands, once_list, cont, start_at, day, meal, nmeals) ==
    IF st.stopped THEN st
    ELSE IF cont /\ RowGet(st.plan[day], meal) # ""
         THEN [st EXCEPT !.prev = IF Strip(st.plan[day][meal]) # ""
                                  THEN Strip(st.plan[day][meal]) ELSE @]
    ELSE IF c.mode = "pantry-first-strict"
         THEN StrictPick(st, c, cands, once_list, start_at, day, meal, nmeals)
    ELSE FreeformPick(st, c, cands, start_at, day, meal, nmeals)

RECURSIVE MealLoop(_, _, _, _, _, _, _, _, _)
MealLoop(st, c, cands, once_list, cont, start_at, day, meals, j) ==
    IF j > Len(meals) THEN st
    ELSE Bind(SlotStep(st, c, cands, once_list, cont, start_at, day,
                       meals[j], Len(meals)),
              LAMBDA nxt : MealLoop(nxt, c, cands, once_list, cont, start_at,
                                    day, meals, j + 1))

RECURSIVE DayLoop(_, _, _, _, _, _, _, _, _)
DayLoop(st, c, cands, once_list, cont, start_at, day, last_day, meals) ==
    IF day > last_day \/ st.stopped THEN st
    ELSE Bind(MealLoop([st EXCEPT !.plan = PlanSetDefault(@, day)],
                       c, cands, once_list, cont, start_at, day, meals, 1),
              LAMBDA nxt : DayLoop(nxt, c, cands, once_list, cont, start_at,
                                   day + 1, last_day, meals))

CandLess(a, b) ==
    \/ StrLess(a.name, b.name)
    \/ (a.name = b.name /\ StrLess(a.cuisine, b.cuisine))

\* The whole call as a function of what it reads: the payload, the
\* constraints, the in-memory ledger, the catalog, the stored plan and log.
AutoPlanRun(payload, c, its, cat, mem_plan, mem_log) ==
    Bind(IF payload.days = 0 THEN 3 ELSE payload.days, LAMBDA days :
    Bind(_slot_names(payload.meals), LAMBDA meals :
    Bind(InitialPlan(mem_plan, payload.continue), LAMBDA plan0 :
    Bind(StartAt(plan0, payload.continue), LAMBDA start_at :
    Bind(StableSort(_eligible_recipes(cat, c), CandLess), LAMBDA candidates :
    Bind(IF c.mode = "pantry-first-strict"
         THEN _shadow_pantry_snapshot_canon(its) ELSE <<>>, LAMBDA shadow :
    Bind(IF Len(shadow) > 0
         THEN _coverable_once_sorted(candidates, shadow) ELSE <<>>,
         LAMBDA once_list :
      DayLoop([plan |-> plan0, shadow |-> shadow,
               once_left |-> {Strip(once_list[i].name) :
                                 i \in 1..Len(once_list)},
               prev |-> "", filled |-> 0, log |-> mem_log,
               stopped |-> FALSE, attempted |-> days * Len(meals),
               visited |-> <<>>],
              c, candidates, once_list, payload.continue, start_at, start_at,
              start_at + days - 1, meals))))))))

\* ------------------------------------------------------ deficit calculator
AllMeals == <<"Breakfast", "Lunch", "Dinner">>

\* the dishes of the plan's slots, day by day (the order of the slots only
\* fixes the insertion order of the need dict, which the final sort by
\* (unit, item) makes unobservable)
RECURSIVE PlanDishes(_)
PlanDishes(pl) ==
    IF DOMAIN pl = {} THEN <<>>
    ELSE Bind(CHOOSE n \in DOMAIN pl : \A m \in DOMAIN pl : n <= m, LAMBDA d :
         Bind(SelectSeq(AllMeals, LAMBDA m : m \in DOMAIN pl[d]), LAMBDA here :
           AsList([i \in 1..Len(here) |-> pl[d][here[i]]])
           \o PlanDishes([n \in DOMAIN pl \ {d} |-> pl[n]])))

\* recipes = {r["name"].lower(): r}: the last record of that name
RecipeOfDish(cat, dish) ==
    Bind(SelectSeq(cat, LAMBDA r : r.name = dish), LAMBDA hits :
      IF Len(hits) = 0 THEN <<>> ELSE <<hits[Len(hits)]>>)

RECURSIVE NeedOfLines(_, _, _)
NeedOfLines(ings, i, need) ==
    IF i > Len(ings) THEN need
    ELSE Bind(canonical_key(ings[i].item), LAMBDA item :
         Bind(canonical_and_unit(item, IF ings[i].unit = "" THEN "count"
                                       ELSE ings[i].unit)[2], LAMBDA unit :
         Bind(IF ings[i].quantity <= 0 \/ item = "" THEN need
              ELSE DictSet(need, <<item, unit>>,
                           DictGet(need, <<item, unit>>, 0) + ings[i].quantity),
              LAMBDA nxt : NeedOfLines(ings, i + 1, nxt))))

RECURSIVE NeedOfDishes(_, _, _, _)
NeedOfDishes(cat, dishes, i, need) ==
    IF i > Len(dishes) THEN need
    ELSE Bind(RecipeOfDish(cat, dishes[i]), LAMBDA rec :
         Bind(IF Len(rec) = 0 THEN need
              ELSE NeedOfLines(rec[1].ingredients, 1, need),
              LAMBDA nxt : NeedOfDishes(cat, dishes, i + 1, nxt)))

\* dict <<item, unit>> -> summed quantity over the whole plan
_collect_plan_requirements(pl, cat) == NeedOfDishes(cat, PlanDishes(pl), 1, <<>>)

\* the first pantry key that canonicalises to (item, unit); "" is None
_find_matching_key(pantry, item, unit) ==
    Bind(canonical_and_unit(item, IF unit = "" THEN "count" ELSE unit),
         LAMBDA cu :
    Bind(FirstIdx(pantry,
            LAMBDA e : Bind(_split_pantry_key(e.k), LAMBDA bu :
                          /\ canonical_key(bu[1]) = cu[1]
                          /\ _normalize_unit(bu[2]) = cu[2])),
         LAMBDA i : IF i = 0 THEN "" ELSE pantry[i].k))

DeficitLess(a, b) ==
    \/ StrLess(a.unit, b.unit)
    \/ (a.unit = b.unit /\ StrLess(a.item, b.item))

\* one row of the deficit table for a needed <<item, unit>> -> qty entry
DeficitRow(pantry, n) ==
    Bind(_find_matching_key(pantry, n.k[1], n.k[2]), LAMBDA key :
    Bind(IF key # "" THEN DictGet(pantry, key, 0) ELSE 0, LAMBDA have :
      [item |-> n.k[1], unit |-> n.k[2], need |-> n.v, have |-> have,
       buy |-> IF n.v - have > 0 THEN n.v - have ELSE 0]))

_quantity_shopping_deficits(pl, pantry, cat) ==
    Bind(_collect_plan_requirements(pl, cat), LAMBDA needs :
      StableSort(SelectSeq(AsList([i \in 1..Len(needs) |->
                                      DeficitRow(pantry, needs[i])]),
                           LAMBDA d : d.buy > 0),
                 DeficitLess))

\* --------------------------------------------------------------- cook_meal
\* _deduct_one that drops the quantity: remove() then deletes the whole entry
_deduct_one_whole_entry(db, rls, item, qty, unit) ==
    remove(db, rls, _canon_item(item), NoQty,
           _norm_unit(IF unit = "" THEN "count" ELSE unit)).db

_deduct_one(db, rls, item, qty, unit) ==
    remove(db, rls, _canon_item(item), qty,
           _norm_unit(IF unit = "" THEN "count" ELSE unit)).db

\* one turn of the loop over the recipe's ingredient lines
CookLine(acc, rls, ing) ==
    Bind(Strip(ing.item), LAMBDA item :
    Bind(_normalize_unit(IF ing.unit = "" THEN "count" ELSE ing.unit),
         LAMBDA unit :
    Bind(_canon_item(item) \o " (" \o _norm_unit(unit) \o ")", LAMBDA key :
    Bind(DictGet(acc.db.items, key, 0), LAMBDA before :
    Bind(IF before < ing.quantity THEN before ELSE ing.quantity, LAMBDA used :
      IF item = "" \/ ing.quantity <= 0 THEN acc
      ELSE Bind(_deduct_one(acc.db, rls, item, ing.quantity, unit),
                LAMBDA db2 :
             [db |-> db2,
              deducted |-> IF used > 0
                           THEN Append(acc.deducted,
                                       [qty |-> used, unit |-> _norm_unit(unit),
                                        item |-> item])
                           ELSE acc.deducted,
              missing |-> IF used < ing.quantity
                          THEN Append(acc.missing,
                                      [qty |-> ing.quantity - used,
                                       unit |-> _norm_unit(unit),
                                       item |-> item])
                          ELSE acc.missing,
              lines |-> Append(acc.lines,
                               [key |-> key, need |-> ing.quantity,
                                before |-> before,
                                after |-> DictGet(db2.items, key, 0),
                                stored |-> DictHas(db2.items, key),
                                used |-> used])]))))))

RECURSIVE CookLoop(_, _, _, _)
CookLoop(acc, rls, ings, i) ==
    IF i > Len(ings) THEN acc
    ELSE Bind(CookLine(acc, rls, ings[i]),
              LAMBDA nxt : CookLoop(nxt, rls, ings, i + 1))

\* ------------------------------------------------------------ configuration
DEFAULT_CONSTRAINTS ==
    [mode |-> "pantry-first-strict", allow_repeats |-> TRUE, cuisine |-> "",
     diet |-> "", max_time |-> 0, sub_policy |-> "100%-coverage",
     allow_subs |-> FALSE]

Ing(item, quantity, unit) == [item |-> item, quantity |-> quantity, unit |-> unit]

Recipe(name, prep, cook, ingredients) ==
    [name |-> name, cuisine |-> "indian", diet |-> "veg",
     prep_time_min |-> prep, cook_time_min |-> cook, ingredients |-> ingredients]

RecA == Recipe("a", 10, 10, <<Ing("rice", 100, "g")>>)
RecB == Recipe("b", 10, 20, <<Ing("rice", 200, "g")>>)
RecPilaf == Recipe("pilaf", 10, 20, <<Ing("rice", 100, "g"), Ing("rice", 100, "g")>>)
RecOmelette == Recipe("omelette", 5, 5, <<Ing("eggs", 3, "count")>>)
RecSalad == Recipe("salad", 5, 0, <<Ing("leafybunch", 1, "count"),
                                    Ing("leafybunch", 100, "g")>>)

CatalogRice == <<RecA, RecB>>
CatalogMixed == <<RecSalad, RecPilaf, RecOmelette>>
Catalogs == {CatalogRice, CatalogMixed}

NoRules == <<>>
LeafyRules == <<[item |-> "leafybunch", from |-> "count", to |-> "g",
                 num |-> 125, den |-> 1, round |-> 10]>>
RuleSets == {NoRules, LeafyRules}

DishNames == {"a", "pilaf", "salad", "ghost"}

\* tool inputs <<item, quantity, unit>>
AddInputs == {<<"rice", 50, "g">>, <<"rice", 100, "g">>, <<"eggs", 2, "count">>,
              <<"leafybunch", 2, "count">>, <<"rice", 0, "g">>,
              <<"rice", 1, "kg">>, <<"leafybunch", 1, "count">>}
SetInputs == {<<"rice", 150, "g">>, <<"rice", 0, "g">>,
              <<"leafybunch", 1, "count">>, <<"leafybunch", 0, "count">>,
              <<"eggs", -1, "count">>}
RemoveInputs == {<<"rice", NoQty, "g">>, <<"rice", 50, "g">>,
                 <<"rice", 100, "g">>, <<"leafybunch", 1, "count">>,
                 <<"leafybunch", 100, "g">>, <<"eggs", 3, "count">>,
                 <<"eggs", 0, "count">>}
CookPayloads == {[dish |-> n, day |-> 0, meal |-> ""] : n \in DishNames}
                \cup {[dish |-> "", day |-> d, meal |-> "Dinner"] : d \in 1..2}

EmptyDb == [items |-> <<>>, disk |-> <<>>]

RetBase ==
    [op |-> "", out |-> "", arg |-> <<>>, had |-> 0, filled |-> 0,
     attempted |-> 0, visited |-> <<>>, deducted |-> <<>>, missing |-> <<>>,
     lines |-> <<>>, deficits |-> <<>>]

\* ------------------------------------------------------------------ actions
Tick == nops < MaxOps /\ nops' = nops + 1

Db == [items |-> items, disk |-> disk]

add_to_pantry(inp) ==
    /\ Tick
    /\ \E r \in {add(Db, rules, inp[1], inp[2], inp[3])} :
       /\ items' = r.db.items
       /\ disk' = r.db.disk
       /\ ret' = [RetBase EXCEPT !.op = "add", !.out = r.out, !.arg = inp]
       /\ UNCHANGED <<rules, catalog, constraints, plan, calc_log, planner_log,
                      shopping_list, hist>>

update_pantry(inp) ==
    /\ Tick
    /\ \E r \in {update(Db, rules, inp[1], inp[2], inp[3])} :
       /\ items' = r.db.items
       /\ disk' = r.db.disk
       /\ ret' = [RetBase EXCEPT !.op = "update", !.out = r.out, !.arg = inp,
                                 !.had = DictGet(items, _key(inp[1], inp[3]), 0)]
       /\ UNCHANGED <<rules, catalog, constraints, plan, calc_log, planner_log,
                      shopping_list, hist>>

remove_from_pantry(inp) ==
    /\ Tick
    /\ \E r \in {remove(Db, rules, inp[1], inp[2], inp[3])} :
       /\ items' = r.db.items
       /\ disk' = r.db.disk
       /\ ret' = [RetBase EXCEPT !.op = "remove", !.out = r.out, !.arg = inp,
                                 !.had = DictGet(items, _key(inp[1], inp[3]), 0)]
       /\ UNCHANGED <<rules, catalog, constraints, plan, calc_log, planner_log,
                      shopping_list, hist>>

\* cook_meal that takes the dish of the named slot before the dish name given
cook_meal_slot_first(payload) ==
    LET slot_dish == IF payload.day \in DOMAIN plan
                     THEN RowGet(plan[payload.day], payload.meal) ELSE ""
        base   == [RetBase EXCEPT !.op = "cook_meal", !.arg = payload]
    IN /\ Tick
       /\ \E dish \in {IF slot_dish # "" THEN slot_dish ELSE payload.dish} :
          \E recipe \in {_load_recipe_by_name(catalog, dish)} :
          IF payload.dish = "" /\ (payload.day = 0 \/ payload.meal = "")
          THEN /\ ret' = [base EXCEPT !.out = "error_payload"]
               /\ UNCHANGED <<items, disk, planner_log>>
          ELSE IF dish = ""
          THEN /\ ret' = [base EXCEPT !.out = "error_no_dish"]
               /\ UNCHANGED <<items, disk, planner_log>>
          ELSE IF Len(recipe) = 0
          THEN /\ ret' = [base EXCEPT !.out = "error_not_found"]
               /\ UNCHANGED <<items, disk, planner_log>>
          ELSE \E acc \in {CookLoop([db |-> Db, deducted |-> <<>>,
                                     missing |-> <<>>, lines |-> <<>>],
                                    rules, recipe[1].ingredients, 1)} :
               /\ items' = acc.db.items
               /\ disk' = acc.db.disk
               /\ planner_log' = Append(planner_log,
                                    [event |-> "cooked", dish |-> dish,
                                     deducted |-> acc.deducted,
                                     missing |-> acc.missing])
               /\ ret' = [base EXCEPT !.out = "cooked",
                                      !.deducted = acc.deducted,
                                      !.missing = acc.missing,
                                      !.lines = acc.lines]
       /\ UNCHANGED <<rules, catalog, constraints, plan, calc_log,
                      shopping_list, hist>>

\* cook_meal that empties the slot it cooked
cook_meal_clears_slot(payload) ==
    LET slot_dish == IF payload.day \in DOMAIN plan
                     THEN RowGet(plan[payload.day], payload.meal) ELSE ""
        base   == [RetBase EXCEPT !.op = "cook_meal", !.arg = payload]
    IN /\ Tick
       /\ \E dish \in {IF payload.dish # "" THEN payload.dish ELSE slot_dish} :
          \E recipe \in {_load_recipe_by_name(catalog, dish)} :
          IF payload.dish = "" /\ (payload.day = 0 \/ payload.meal = "")
          THEN /\ ret' = [base EXCEPT !.out = "error_payload"]
               /\ UNCHANGED <<items, disk, planner_log>>
          ELSE IF dish = ""
          THEN /\ ret' = [base EXCEPT !.out = "error_no_dish"]
               /\ UNCHANGED <<items, disk, planner_log>>
          ELSE IF Len(recipe) = 0
          THEN /\ ret' = [base EXCEPT !.out = "error_not_found"]
               /\ UNCHANGED <<items, disk, planner_log>>
          ELSE \E acc \in {CookLoop([db |-> Db, deducted |-> <<>>,
                                     missing |-> <<>>, lines |-> <<>>],
                                    rules, recipe[1].ingredients, 1)} :
               /\ items' = acc.db.items
               /\ disk' = acc.db.disk
               /\ planner_log' = Append(planner_log,
                                    [event |-> "cooked", dish |-> dish,
                                     deducted |-> acc.deducted,
                                     missing |-> acc.missing])
               /\ ret' = [base EXCEPT !.out = "cooked",
                                      !.deducted = acc.deducted,
                                      !.missing = acc.missing,
                                      !.lines = acc.lines]
       /\ plan' = IF ret'.out = "cooked" /\ payload.day \in DOMAIN plan
                  THEN [plan EXCEPT ![payload.day] = RowSet(@, payload.meal, "")]
                  ELSE plan
       /\ UNCHANGED <<rules, catalog, constraints, calc_log, shopping_list,
                      hist>>

cook_meal(payload) ==
    LET slot_dish == IF payload.day \in DOMAIN plan
                     THEN RowGet(plan[payload.day], payload.meal) ELSE ""
        base   == [RetBase EXCEPT !.op = "cook_meal", !.arg = payload]
    IN /\ Tick
       /\ \E dish \in {IF payload.dish # "" THEN payload.dish ELSE slot_dish} :
          \E recipe \in {_load_recipe_by_name(catalog, dish)} :
          IF payload.dish = "" /\ (payload.day = 0 \/ payload.meal = "")
          THEN /\ ret' = [base EXCEPT !.out = "error_payload"]
               /\ UNCHANGED <<items, disk, planner_log>>
          ELSE IF dish = ""
          THEN /\ ret' = [base EXCEPT !.out = "error_no_dish"]
               /\ UNCHANGED <<items, disk, planner_log>>
          ELSE IF Len(recipe) = 0
          THEN /\ ret' = [base EXCEPT !.out = "error_not_found"]
               /\ UNCHANGED <<items, disk, planner_log>>
          ELSE \E acc \in {CookLoop([db |-> Db, deducted |-> <<>>,
                                     missing |-> <<>>, lines |-> <<>>],
                                    rules, recipe[1].ingredients, 1)} :
               /\ items' = acc.db.items
               /\ disk' = acc.db.disk
               /\ planner_log' = Append(planner_log,
                                    [event |-> "cooked", dish |-> dish,
                                     deducted |-> acc.deducted,
                                     missing |-> acc.missing])
               /\ ret' = [base EXCEPT !.out = "cooked",
                                      !.deducted = acc.deducted,
                                      !.missing = acc.missing,
                                      !.lines = acc.lines]
       /\ UNCHANGED <<rules, catalog, constraints, plan, calc_log,
                      shopping_list, hist>>

Init ==
    /\ items = <<>>
    /\ disk = <<>>
    /\ rules \in RuleSets
    /\ catalog \in Catalogs
    /\ constraints = DEFAULT_CONSTRAINTS
    /\ plan = <<>>
    /\ calc_log = <<>>
    /\ planner_log = <<>>
    /\ shopping_list = <<>>
    /\ ret = RetBase
    /\ hist = <<>>
    /\ nops = 0

Next ==
    \/ \E inp \in AddInputs : add_to_pantry(inp)
    \/ \E inp \in SetInputs : update_pantry(inp)
    \/ \E inp \in RemoveInputs : remove_from_pantry(inp)
    \/ \E payload \in CookPayloads : cook_meal(payload)

Spec == Init /\ [][Next]_vars

\* ------------------------------------------------------------ plan actions
\* payloads hold only the keys the caller sent
ConstraintPayloads ==
    {[mode |-> "freeform"], [allow_repeats |-> FALSE], [max_time |-> 20]}

AutoPlanPayloads ==
    {[days |-> 1, meals |-> 1, continue |-> FALSE],
     [days |-> 3, meals |-> 1, continue |-> FALSE],
     [days |-> 3, meals |-> 2, continue |-> FALSE],
     [days |-> 1, meals |-> 1, continue |-> TRUE]}

UpdatePlanPayloads ==
    {[day |-> d, meal |-> "Dinner", recipe_name |-> n, reason |-> ""] :
        d \in 1..2, n \in {"b", "omelette", "salad"}}

PlanCookPayloads ==
    {[dish |-> "", day |-> d, meal |-> "Dinner"] : d \in 1..2}
       \cup {[dish |-> "a", day |-> 1, meal |-> "Dinner"]}

_normalize_constraints(c, upd) ==
    LET has(k) == k \in DOMAIN upd
        mode == IF has("mode") THEN Strip(upd.mode) ELSE ""
    IN [c EXCEPT
          !.mode = IF mode \in {"pantry-first", "pantry-first-strict", "strict"}
                   THEN "pantry-first-strict"
                   ELSE IF mode \in {"freeform", "user-choice", "personal-choice"}
                   THEN "freeform" ELSE @,
          !.allow_repeats = IF has("allow_repeats") THEN upd.allow_repeats ELSE @,
          !.cuisine = IF has("cuisine") THEN Strip(upd.cuisine) ELSE @,
          !.diet = IF has("diet")
                   THEN IF Strip(upd.diet) \in {"veg", "eggtarian", "non-veg"}
                        THEN Strip(upd.diet) ELSE ""
                   ELSE @,
          !.max_time = IF has("max_time") THEN upd.max_time ELSE @]

set_constraints(payload) ==
    /\ Tick
    /\ constraints' = _normalize_constraints(constraints, payload)
    /\ ret' = [RetBase EXCEPT !.op = "set_constraints", !.out = "ok",
                              !.arg = payload]
    /\ UNCHANGED <<items, disk, rules, catalog, plan, calc_log, planner_log,
                   shopping_list, hist>>

\* hist keeps the last two fresh calls: what each read and what it produced
Remember(payload, run) ==
    SubSeq(<<[payload |-> payload, items |-> items, catalog |-> catalog,
              constraints |-> constraints, mem_plan |-> plan,
              plan |-> run.plan, filled |-> run.filled]>> \o hist,
           1, IF Len(hist) = 0 THEN 1 ELSE 2)

\* auto_plan with the simulated deductions written to the store instead of
\* being kept in the private shadow copy
auto_plan_commits_shadow(payload) ==
    /\ Tick
    /\ \E run \in {AutoPlanRun(payload, constraints, items, catalog, plan,
                            calc_log)} :
       \E left \in {AsList([i \in 1..Len(run.shadow) |->
                      [k |-> run.shadow[i].k[1] \o " (" \o run.shadow[i].k[2]
                             \o ")",
                       v |-> run.shadow[i].v]])} :
       /\ plan' = run.plan
       /\ calc_log' = run.log
       /\ ret' = [RetBase EXCEPT !.op = "auto_plan",
                                 !.out = IF run.stopped THEN "stopped"
                                         ELSE "completed",
                                 !.arg = payload,
                                 !.filled = run.filled,
                                 !.attempted = run.attempted,
                                 !.visited = run.visited]
       /\ hist' = IF payload.continue THEN hist ELSE Remember(payload, run)
       /\ items' = SelectSeq(left, LAMBDA e : e.v > 0)
       /\ disk' = SelectSeq(left, LAMBDA e : e.v > 0)
       /\ UNCHANGED <<rules, catalog, constraints, planner_log, shopping_list>>

auto_plan(payload) ==
    /\ Tick
    /\ \E run \in {AutoPlanRun(payload, constraints, items, catalog, plan,
                            calc_log)} :
       /\ plan' = run.plan
       /\ calc_log' = run.log
       /\ ret' = [RetBase EXCEPT !.op = "auto_plan",
                                 !.out = IF run.stopped THEN "stopped"
                                         ELSE "completed",
                                 !.arg = payload,
                                 !.filled = run.filled,
                                 !.attempted = run.attempted,
                                 !.visited = run.visited]
       /\ hist' = IF payload.continue THEN hist ELSE Remember(payload, run)
       /\ UNCHANGED <<items, disk, rules, catalog, constraints, planner_log,
                      shopping_list>>

update_plan(payload) ==
    /\ Tick
    /\ IF payload.day = 0 \/ payload.meal = "" \/ payload.recipe_name = ""
       THEN /\ ret' = [RetBase EXCEPT !.op = "update_plan", !.out = "error",
                                      !.arg = payload]
            /\ UNCHANGED <<plan, calc_log>>
       ELSE /\ plan' = [PlanSetDefault(plan, payload.day) EXCEPT
                           ![payload.day] = RowSet(@, payload.meal,
                                                   payload.recipe_name)]
            /\ calc_log' = Append(calc_log,
                              [slot |-> <<payload.day, payload.meal>>,
                               dish |-> payload.recipe_name,
                               reason |-> payload.reason])
            /\ ret' = [RetBase EXCEPT !.op = "update_plan", !.out = "set",
                                      !.arg = payload]
    /\ UNCHANGED <<items, disk, rules, catalog, constraints, planner_log,
                   shopping_list, hist>>

\* get_shopping_list that leaves out what the stored shopping list holds
get_shopping_list_skips_listed ==
    /\ Tick
    /\ \E deficits \in {SelectSeq(_quantity_shopping_deficits(plan, disk, catalog),
                                  LAMBDA d : \A i \in 1..Len(shopping_list) :
                                                shopping_list[i] # d)} :
       /\ IF DOMAIN plan = {}
          THEN /\ ret' = [RetBase EXCEPT !.op = "get_shopping_list",
                                         !.out = "no_plan",
                                         !.arg = [after |-> ret.op]]
               /\ UNCHANGED shopping_list
          ELSE /\ shopping_list' = deficits
               /\ ret' = [RetBase EXCEPT !.op = "get_shopping_list",
                                         !.out = "listed",
                                         !.arg = [after |-> ret.op],
                                         !.deficits = deficits]
       /\ UNCHANGED <<items, disk, rules, catalog, constraints, plan, calc_log,
                      planner_log, hist>>

\* _load_pantry reads the file, not the in-memory store; arg.after keeps the
\* tool that was called just before
get_shopping_list ==
    /\ Tick
    /\ \E deficits \in {_quantity_shopping_deficits(plan, disk, catalog)} :
       /\ IF DOMAIN plan = {}
          THEN /\ ret' = [RetBase EXCEPT !.op = "get_shopping_list",
                                         !.out = "no_plan",
                                         !.arg = [after |-> ret.op]]
               /\ UNCHANGED shopping_list
          ELSE /\ shopping_list' = deficits
               /\ ret' = [RetBase EXCEPT !.op = "get_shopping_list",
                                         !.out = "listed",
                                         !.arg = [after |-> ret.op],
                                         !.deficits = deficits]
       /\ UNCHANGED <<items, disk, rules, catalog, constraints, plan, calc_log,
                      planner_log, hist>>

\* Pantry files an earlier session can have left: what add() calls write.
StockRuns ==
    {<<>>,
     <<<<"rice", 150, "g">>>>,
     <<<<"rice", 150, "g">>, <<"rice", 50, "g">>>>,
     <<<<"rice", 150, "g">>, <<"rice", 150, "g">>>>,
     <<<<"egg", 2, "count">>, <<"eggs", 2, "count">>>>,
     <<<<"eggs", 2, "count">>, <<"rice", 150, "g">>>>,
     <<<<"leafybunch", 2, "count">>, <<"eggs", 2, "count">>, <<"eggs", 2, "count">>>>,
     <<<<"leafybunch", 2, "count">>>>}

RECURSIVE Stocked(_, _, _)
Stocked(db, rls, run) ==
    IF Len(run) = 0 THEN db
    ELSE Bind(add(db, rls, run[1][1], run[1][2], run[1][3]).db,
              LAMBDA nxt : Stocked(nxt, rls, Tail(run)))

InitPlan ==
    /\ rules = LeafyRules
    /\ \E run \in StockRuns :
       \E db \in {Stocked(EmptyDb, LeafyRules, run)} :
          /\ items = db.items
          /\ disk = db.disk
    /\ catalog \in Catalogs
    /\ constraints = DEFAULT_CONSTRAINTS
    /\ plan = <<>>
    /\ calc_log = <<>>
    /\ planner_log = <<>>
    /\ shopping_list = <<>>
    /\ ret = RetBase
    /\ hist = <<>>
    /\ nops = 0

NextPlan ==
    \/ \E payload \in ConstraintPayloads : set_constraints(payload)
    \/ \E payload \in AutoPlanPayloads : auto_plan(payload)
    \/ \E payload \in UpdatePlanPayloads : update_plan(payload)
    \/ get_shopping_list
    \/ \E payload \in PlanCookPayloads : cook_meal(payload)

SpecPlan == InitPlan /\ [][NextPlan]_vars

\* ------------------------------------------------------ failing file write
\* _save raises (open or json.dump fails): the exception leaves the method
\* after the in-memory dict was changed; the file is as it was when open()
\* failed and holds no readable ledger when the write broke off.
pantry_tool_save_raises(op, inp) ==
    /\ Tick
    /\ \E r \in {IF op = "add" THEN add(Db, rules, inp[1], inp[2], inp[3])
                 ELSE IF op = "update"
                 THEN update(Db, rules, inp[1], inp[2], inp[3])
                 ELSE remove(Db, rules, inp[1], inp[2], inp[3])} :
       /\ r.out \in {"added", "set", "removed", "removed_all"}
       /\ items' = r.db.items
       /\ disk' \in {disk, <<>>}
       /\ ret' = [RetBase EXCEPT !.op = op, !.out = "raised", !.arg = inp]
       /\ UNCHANGED <<rules, catalog, constraints, plan, calc_log, planner_log,
                      shopping_list, hist>>

\* cook_meal whose f-th ingredient line is the one at which _save raises: the
\* lines before it were removed and saved, the exception leaves cook_meal
\* before the cook log is written
cook_meal_save_raises(dish, f) ==
    /\ Tick
    /\ \E recipe \in {_load_recipe_by_name(catalog, dish)} :
       /\ Len(recipe) = 1
       /\ f \in 1..Len(recipe[1].ingredients)
       /\ \E acc \in {CookLoop([db |-> Db, deducted |-> <<>>,
                                missing |-> <<>>, lines |-> <<>>],
                               rules, SubSeq(recipe[1].ingredients, 1, f - 1),
                               1)} :
          \E r \in {remove(acc.db, rules,
                           _canon_item(Strip(recipe[1].ingredients[f].item)),
                           recipe[1].ingredients[f].quantity,
                           _norm_unit(_normalize_unit(
                              recipe[1].ingredients[f].unit)))} :
             /\ r.out = "removed"
             /\ items' = r.db.items
             /\ disk' \in {acc.db.disk, <<>>}
             /\ ret' = [RetBase EXCEPT !.op = "cook_meal", !.out = "raised",
                                       !.arg = [dish |-> dish, day |-> 0,
                                                meal |-> ""],
                                       !.lines = acc.lines]
    /\ UNCHANGED <<rules, catalog, constraints, plan, calc_log, planner_log,
                   shopping_list, hist>>

FailingOps == {"add", "update", "remove"}
FailingInputs == {<<"rice", 100, "g">>, <<"leafybunch", 2, "count">>}
FailingDishes == {"a", "salad", "pilaf"}

NextFail ==
    \/ Next
    \/ \E op \in FailingOps : \E inp \in FailingInputs :
          pantry_tool_save_raises(op, inp)
    \/ \E dish \in FailingDishes : \E f \in 1..2 : cook_meal_save_raises(dish, f)

SpecFail == Init /\ [][NextFail]_vars

\* ------------------------------------------------------- malformed rule
\* A rule whose "factor" is not a number is written with den = 0: float()
\* of it raises ValueError inside _mirror_delta / _mirror_set.
FactorRaises(r) == r.den = 0

MalformedLeafy == <<[item |-> "leafybunch", from |-> "count", to |-> "g",
                     num |-> 0, den |-> 0, round |-> 10]>>
WellThenMalformed == <<[item |-> "leafybunch", from |-> "count", to |-> "ml",
                        num |-> 2, den |-> 1, round |-> 0],
                       [item |-> "leafybunch", from |-> "count", to |-> "g",
                        num |-> 0, den |-> 0, round |-> 10]>>
MalformedRuleSets == {MalformedLeafy, WellThenMalformed}

\* index in rls of the first rule for (item, unit_from) at which the mirror
\* loop raises, 0 when the loop runs through
FirstMalformed(rls, item, unit_from) ==
    FirstIdx(rls, LAMBDA r : /\ _canon_item(r.item) = _canon_item(item)
                             /\ _norm_unit(r.from) = _norm_unit(unit_from)
                             /\ FactorRaises(r))

\* add / update / remove in which the mirror loop raises at rule i: _bump or
\* _set_exact and the rules before i have acted on self.items, _save is
\* never reached
pantry_tool_mirror_raises(op, inp) ==
    /\ Tick
    /\ \E i \in {FirstMalformed(rules, inp[1], inp[3])} :
       /\ i > 0
       /\ \E r \in {IF op = "add"
                    THEN add(Db, SubSeq(rules, 1, i - 1), inp[1], inp[2], inp[3])
                    ELSE IF op = "update"
                    THEN update(Db, SubSeq(rules, 1, i - 1), inp[1], inp[2],
                                inp[3])
                    ELSE remove(Db, SubSeq(rules, 1, i - 1), inp[1], inp[2],
                                inp[3])} :
          /\ r.out \in {"added", "set", "removed", "removed_all"}
          /\ items' = r.db.items
          /\ disk' = disk
          /\ ret' = [RetBase EXCEPT !.op = op, !.out = "mirror_raised",
                                    !.arg = inp]
    /\ UNCHANGED <<rules, catalog, constraints, plan, calc_log, planner_log,
                   shopping_list, hist>>

InitMalformed ==
    /\ items = <<>>
    /\ disk = <<>>
    /\ rules \in MalformedRuleSets
    /\ catalog \in Catalogs
    /\ constraints = DEFAULT_CONSTRAINTS
    /\ plan = <<>>
    /\ calc_log = <<>>
    /\ planner_log = <<>>
    /\ shopping_list = <<>>
    /\ ret = RetBase
    /\ hist = <<>>
    /\ nops = 0

NextMalformed ==
    \/ \E inp \in AddInputs :
          FirstMalformed(rules, inp[1], inp[3]) = 0 /\ add_to_pantry(inp)
    \/ \E inp \in SetInputs :
          FirstMalformed(rules, inp[1], inp[3]) = 0 /\ update_pantry(inp)
    \/ \E inp \in RemoveInputs :
          FirstMalformed(rules, inp[1], inp[3]) = 0 /\ remove_from_pantry(inp)
    \/ \E inp \in AddInputs : pantry_tool_mirror_raises("add", inp)
    \/ \E inp \in SetInputs : pantry_tool_mirror_raises("update", inp)
    \/ \E inp \in RemoveInputs : pantry_tool_mirror_raises("remove", inp)

SpecMalformed == InitMalformed /\ [][NextMalformed]_vars

\* ------------------------------------------------------- names (textnorm)
\* Raw ingredient names handed to canonical_key: descriptors and modifiers in
\* front of a head noun.
NamePrefixes == {"", "large ", "green ", "thai green ", "chopped "}
NameHeads == {"eggs", "chillies", "leaves", "berries", "tomatoes", "rice",
              "radishes", "lemongrass", "molasses", "peas"}
RawNames == {p \o h : p \in NamePrefixes, h \in NameHeads}

InitNames ==
    /\ items = <<>>
    /\ disk = <<>>
    /\ rules = NoRules
    /\ catalog = <<>>
    /\ constraints = DEFAULT_CONSTRAINTS
    /\ plan = <<>>
    /\ calc_log = <<>>
    /\ planner_log = <<>>
    /\ shopping_list = <<>>
    /\ \E name \in RawNames : ret = [RetBase EXCEPT !.arg = name, !.out = name]
    /\ hist = <<>>
    /\ nops = 0

\* canonical_key applied to the name produced so far
canonical_key_call ==
    /\ Tick
    /\ ret' = [RetBase EXCEPT !.op = "canonical_key", !.arg = ret.out,
                              !.out = canonical_key(ret.out)]
    /\ UNCHANGED <<items, disk, rules, catalog, constraints, plan, calc_log,
                   planner_log, shopping_list, hist>>

NextNames == canonical_key_call

SpecNames == InitNames /\ [][NextNames]_vars

\* ------------------------------------------------- filters and pick order
\* A catalog whose recipes differ in cuisine, diet and time and tie in
\* tightness, with the constraints that select among them.
RecQuick == [Recipe("c", 5, 10, <<Ing("rice", 100, "g")>>)
                EXCEPT !.cuisine = "thai"]
RecTwin == [Recipe("d", 5, 10, <<Ing("rice", 100, "g")>>)
                EXCEPT !.cuisine = "thai", !.diet = "non-veg"]
RecBig == [Recipe("b", 10, 20, <<Ing("rice", 200, "g")>>) EXCEPT !.diet = ""]
RecEggs == [Recipe("e", 5, 5, <<Ing("eggs", 3, "count")>>) EXCEPT !.diet = "any"]
CatalogPick == <<RecTwin, RecBig, RecA, RecEggs, RecQuick>>

PickStockRuns ==
    {<<>>,
     <<<<"rice", 150, "g">>>>,
     <<<<"rice", 150, "g">>, <<"rice", 150, "g">>>>,
     <<<<"rice", 150, "g">>, <<"eggs", 2, "count">>, <<"eggs", 2, "count">>>>}

PickConstraintPayloads ==
    {[cuisine |-> "thai"], [diet |-> "veg"], [max_time |-> 15],
     [mode |-> "freeform"], [allow_repeats |-> FALSE]}

PickPlanPayloads ==
    {[days |-> 1, meals |-> 1, continue |-> FALSE],
     [days |-> 3, meals |-> 1, continue |-> FALSE],
     [days |-> 1, meals |-> 1, continue |-> TRUE]}

InitPick ==
    /\ rules = NoRules
    /\ \E run \in PickStockRuns :
       \E db \in {Stocked(EmptyDb, NoRules, run)} :
          /\ items = db.items
          /\ disk = db.disk
    /\ catalog = CatalogPick
    /\ constraints = DEFAULT_CONSTRAINTS
    /\ plan = <<>>
    /\ calc_log = <<>>
    /\ planner_log = <<>>
    /\ shopping_list = <<>>
    /\ ret = RetBase
    /\ hist = <<>>
    /\ nops = 0

NextPick ==
    \/ \E payload \in PickConstraintPayloads : set_constraints(payload)
    \/ \E payload \in PickPlanPayloads : auto_plan(payload)

SpecPick == InitPick /\ [][NextPick]_vars

\* ================================================================== claims
\* ------------------------------------------------------------ observations
\* the catalog record of an assigned dish
RecOf(dish) == _load_recipe_by_name(catalog, dish)[1]

\* quantity the requirement lines req[i..] ask of the canonical key k
RECURSIVE SumQty(_, _, _)
SumQty(req, k, i) ==
    IF i > Len(req) THEN 0
    ELSE (IF <<req[i][1], req[i][2]>> = k THEN req[i][3] ELSE 0)
         + SumQty(req, k, i + 1)

\* quantity the dishes assigned in visited[i..] require of the canonical key k
RECURSIVE AssignedQty(_, _, _)
AssignedQty(visited, k, i) ==
    IF i > Len(visited) THEN 0
    ELSE (IF visited[i][3] = "" THEN 0
          ELSE SumQty(_recipe_requirements_canon(RecOf(visited[i][3])), k, 1))
         + AssignedQty(visited, k, i + 1)

\* the canonical keys the catalog's recipes ask for
CatalogKeys ==
    UNION {{<<r[j][1], r[j][2]>> : j \in 1..Len(r)} :
              r \in {_recipe_requirements_canon(catalog[i]) :
                        i \in 1..Len(catalog)}}

\* the private shadow after the dishes assigned in visited[i..]
RECURSIVE ShadowAfter(_, _, _)
ShadowAfter(visited, i, shadow) ==
    IF i > Len(visited) THEN shadow
    ELSE ShadowAfter(visited, i + 1,
                     IF visited[i][3] = "" THEN shadow
                     ELSE _apply_deduction_canon(RecOf(visited[i][3]), shadow))

\* quantity the entries its[i..] hold for the canonical key k
RECURSIVE OnHand(_, _, _)
OnHand(its, k, i) ==
    IF i > Len(its) THEN 0
    ELSE (IF canonical_and_unit(_split_pantry_key(its[i].k)[1],
                                _split_pantry_key(its[i].k)[2]) = k
          THEN its[i].v ELSE 0)
         + OnHand(its, k, i + 1)

FreshStrictPlanDone ==
    /\ ret.op = "auto_plan"
    /\ ~ret.arg.continue
    /\ constraints.mode = "pantry-first-strict"

\* -------------------------------------------------------------------- C1
\* C1: starting from an empty ledger, after any sequence of Add, Set, Remove
\* and CookMeal calls (mirror updates included) every stored entry, in memory
\* and in the file, holds an integer quantity strictly greater than zero.
C1_EntriesPositive ==
    /\ \A i \in 1..Len(items) : items[i].v \in Int /\ items[i].v > 0
    /\ \A i \in 1..Len(disk) : disk[i].v \in Int /\ disk[i].v > 0

\* a cook transaction used up an entry completely and the key is gone, while
\* another entry is still stored
C1_Witness ==
    /\ ret.op = "cook_meal"
    /\ \E i \in 1..Len(ret.lines) :
          /\ ret.lines[i].before > 0
          /\ ret.lines[i].used = ret.lines[i].before
          /\ ~DictHas(items, ret.lines[i].key)
    /\ Len(items) > 0

\* -------------------------------------------------------------------- C2
\* C2: after a fresh auto_plan call in pantry-first-strict mode, for every
\* canonical (item, unit family) the quantity required by all the dishes the
\* call assigned, summed, is at most what the ledger held for that key when
\* the call started (the call leaves the ledger as it was).
C2_AssignedWithinLedger ==
    FreshStrictPlanDone =>
       \A k \in CatalogKeys :
          AssignedQty(ret.visited, k, 1)
             <= DictGet(_shadow_pantry_snapshot_canon(items), k, 0)

\* -------------------------------------------------------------------- C3
\* C3: a fresh auto_plan call in pantry-first-strict mode visits the slots in
\* day-major, meal-minor order and stops at the first slot it leaves unfilled:
\* the filled slots are a prefix of that order, an unfilled slot is the last
\* one visited, and the stored plan holds the visited slots and no other.
C3_StopsAtFirstUnfilled ==
    FreshStrictPlanDone =>
       LET v     == ret.visited
           meals == _slot_names(ret.arg.meals)
           n     == Len(meals)
       IN /\ Len(v) <= ret.arg.days * n
          /\ \A i \in 1..Len(v) :
                /\ v[i][1] = 1 + ((i - 1) \div n)
                /\ v[i][2] = meals[((i - 1) % n) + 1]
                /\ (v[i][3] = "" => i = Len(v))
                /\ v[i][1] \in DOMAIN plan
                /\ v[i][2] \in DOMAIN plan[v[i][1]]
                /\ plan[v[i][1]][v[i][2]] = v[i][3]
          /\ (Len(v) < ret.arg.days * n => Len(v) > 0 /\ v[Len(v)][3] = "")
          /\ \A d \in DOMAIN plan : \A m \in DOMAIN plan[d] :
                \E i \in 1..Len(v) : v[i][1] = d /\ v[i][2] = m
          /\ ret.filled = Cardinality({i \in 1..Len(v) : v[i][3] # ""})

\* the call stopped before its last slot, after filling at least one, while a
\* catalog dish is still fully covered by what is left in the shadow
C3_Witness ==
    /\ FreshStrictPlanDone
    /\ ret.out = "stopped"
    /\ ret.filled > 0
    /\ Len(ret.visited) < ret.arg.days * Len(_slot_names(ret.arg.meals))
    /\ \E i \in 1..Len(catalog) :
          /\ _recipe_eligible_by_filters(catalog[i], constraints)
          /\ _can_fulfill_strict_canon(
                catalog[i],
                ShadowAfter(ret.visited, 1,
                            _shadow_pantry_snapshot_canon(items)))

\* -------------------------------------------------------------------- C4
LeafyCount == "leafybunch (count)"
LeafyGrams == "leafybunch (g)"

\* the two calls of the example, made on the empty ledger under the leafybunch
\* rule; g is the mirrored gram quantity the second call is to leave
LeafyExample(g) ==
    /\ (/\ nops = 0
        /\ rules = LeafyRules
        /\ ret'.op = "add"
        /\ ret'.arg = <<"leafybunch", 2, "count">>)
       => items' = <<[k |-> LeafyCount, v |-> 2], [k |-> LeafyGrams, v |-> 250]>>
    /\ (/\ nops = 1
        /\ rules = LeafyRules
        /\ ret.op = "add"
        /\ ret.arg = <<"leafybunch", 2, "count">>
        /\ ret'.op = "remove"
        /\ ret'.arg = <<"leafybunch", 1, "count">>)
       => items' = <<[k |-> LeafyCount, v |-> 1], [k |-> LeafyGrams, v |-> g]>>

\* C4 as stated: Add(leafybunch, 2, count) on the empty ledger yields count 2
\* and 250 g, and the following Remove(leafybunch, 1, count) yields count 1
\* and 125 g.
C4_Original == [][LeafyExample(125)]_vars

\* C4 amended: Add(leafybunch, 2, count) on the empty ledger yields count 2
\* and 250 g, and the following Remove(leafybunch, 1, count) yields count 1
\* and 130 g: the mirrored delta -125 is rounded to the step 10 as
\* round(-12.5) * 10 = -120.
C4_MirrorAfterRemove == [][LeafyExample(130)]_vars

\* the ledger after the two calls of the example
C4_Witness ==
    /\ nops = 2
    /\ rules = LeafyRules
    /\ ret.op = "remove"
    /\ ret.arg = <<"leafybunch", 1, "count">>
    /\ ret.had = 2
    /\ DictGet(items, LeafyCount, 0) = 1
    /\ DictGet(items, LeafyGrams, 0) = 130

\* -------------------------------------------------------------------- C5
\* the call of the example: dishes a (100 g rice) and b (200 g rice), rice (g)
\* = 150 in the ledger, strict mode, 3 days with one meal a day
RiceExampleDone ==
    /\ FreshStrictPlanDone
    /\ ret.arg = [days |-> 3, meals |-> 1, continue |-> FALSE]
    /\ catalog = CatalogRice
    /\ items = <<[k |-> "rice (g)", v |-> 150]>>

RiceExamplePlan ==
    /\ plan[1]["Dinner"] = "a"
    /\ \A d \in DOMAIN plan : \A m \in DOMAIN plan[d] :
          <<d, m>> # <<1, "Dinner">> => plan[d][m] = ""
    /\ ret.filled = 1

\* C5 as stated: in the example day 1 is assigned a, no later slot is
\* assigned, and the call reports filled = 1 and attempted = 3.
C5_Original ==
    RiceExampleDone => RiceExamplePlan /\ ret.attempted = 3

\* C5 amended: in the example day 1 is assigned a, no later slot is assigned,
\* and the call reports filled = 1 and attempted = 2, the slots of the days
\* up to the day it stopped at.
C5_StopsAfterDayOne ==
    RiceExampleDone => RiceExamplePlan /\ ret.attempted = 2

C5_Witness ==
    /\ RiceExampleDone
    /\ ret.out = "stopped"
    /\ ret.visited = <<<<1, "Dinner", "a">>, <<2, "Dinner", "">>>>

\* -------------------------------------------------------------------- C6
\* the deficit records the claim asks for: one for each needed canonical key
\* whose summed need exceeds what the file holds for that key
WantedDeficits ==
    LET needs == _collect_plan_requirements(plan, catalog)
    IN {[item |-> needs[i].k[1], unit |-> needs[i].k[2], need |-> needs[i].v,
         have |-> OnHand(disk, needs[i].k, 1),
         buy |-> needs[i].v - OnHand(disk, needs[i].k, 1)] :
           i \in {j \in 1..Len(needs) : needs[j].v > OnHand(disk, needs[j].k, 1)}}

\* C6: get_shopping_list returns exactly one record {need N, have H,
\* buy N - H} for each canonical (item, unit) whose summed need N over the
\* filled slots exceeds the quantity H the ledger file holds for that
\* canonical key, and no record for any other key.
C6_DeficitsExact ==
    (ret.op = "get_shopping_list" /\ ret.out = "listed") =>
       /\ {ret.deficits[i] : i \in 1..Len(ret.deficits)} = WantedDeficits
       /\ Len(ret.deficits) = Cardinality(WantedDeficits)

\* -------------------------------------------------------------------- C7
Min(a, b) == IF a < b THEN a ELSE b

\* the positive amounts of a list, in order
Positive(amounts) == SelectSeq(amounts, LAMBDA x : x > 0)

\* C7: for every requirement line of the cooked dish, with need n and ledger
\* on-hand h just before the line's removal, used = min(h, n) is reported as
\* deducted when positive, n - used as missing when positive, and the entry
\* holds h - used afterwards and is absent when that is zero.
C7_LineAccounting ==
    (ret.op = "cook_meal" /\ ret.out = "cooked") =>
       /\ \A i \in 1..Len(ret.lines) :
             LET l == ret.lines[i]
             IN /\ l.used = Min(l.before, l.need)
                /\ l.after = l.before - l.used
                /\ (l.stored <=> l.after > 0)
       /\ [i \in 1..Len(ret.deducted) |-> ret.deducted[i].qty]
             = Positive([i \in 1..Len(ret.lines) |->
                           Min(ret.lines[i].before, ret.lines[i].need)])
       /\ [i \in 1..Len(ret.missing) |-> ret.missing[i].qty]
             = Positive([i \in 1..Len(ret.lines) |->
                           ret.lines[i].need
                           - Min(ret.lines[i].before, ret.lines[i].need)])
       /\ (Len(ret.lines) > 0 =>
             LET l == ret.lines[Len(ret.lines)]
             IN DictGet(items, l.key, 0) = l.before - Min(l.before, l.need))

\* the example: 100 g needed, 50 g on hand
C7_Witness ==
    /\ ret.op = "cook_meal"
    /\ ret.out = "cooked"
    /\ Len(ret.lines) = 1
    /\ ret.lines[1].need = 100
    /\ ret.lines[1].before = 50
    /\ ret.deducted = <<[qty |-> 50, unit |-> "g", item |-> "rice"]>>
    /\ ret.missing = <<[qty |-> 50, unit |-> "g", item |-> "rice"]>>
    /\ ~DictHas(items, "rice (g)")

\* -------------------------------------------------------------------- C8
\* C8: a remove of q on an existing entry holding h deletes the entry when q
\* is absent, leaves h - q when 0 < q < h and deletes the entry when q >= h;
\* the stored value is never below zero.
C8_RemoveFloors ==
    [][(ret'.op = "remove" /\ nops' = nops + 1) =>
          LET k == _key(ret'.arg[1], ret'.arg[3])
              q == ret'.arg[2]
              h == DictGet(items, k, 0)
          IN DictHas(items, k) =>
                /\ (q = NoQty => ~DictHas(items', k))
                /\ (q # NoQty /\ q > 0 /\ q < h
                       => DictHas(items', k) /\ DictGet(items', k, 0) = h - q)
                /\ (q # NoQty /\ q >= h /\ q > 0 => ~DictHas(items', k))
                /\ DictGet(items', k, 0) >= 0]_vars

\* a remove asked for more than the entry held, and the entry is gone
C8_Witness ==
    /\ ret.op = "remove"
    /\ ret.out = "removed"
    /\ ret.had > 0
    /\ ret.arg[2] > ret.had
    /\ ~DictHas(items, _key(ret.arg[1], ret.arg[3]))

\* -------------------------------------------------------------------- C9
SameInputs(a, b) ==
    /\ a.payload = b.payload
    /\ a.items = b.items
    /\ a.catalog = b.catalog
    /\ a.constraints = b.constraints

\* C9: two fresh auto_plan calls with the same payload against the same
\* ledger, catalog and constraints produce the same plan and the same filled
\* count.
C9_Deterministic ==
    (Len(hist) = 2 /\ SameInputs(hist[1], hist[2])) =>
       /\ hist[1].plan = hist[2].plan
       /\ hist[1].filled = hist[2].filled

\* two such calls, made while different plans were stored, each filling a slot
C9_Witness ==
    /\ Len(hist) = 2
    /\ SameInputs(hist[1], hist[2])
    /\ hist[1].mem_plan # hist[2].mem_plan
    /\ hist[1].filled > 0
    /\ \E d \in DOMAIN hist[1].mem_plan : d \notin DOMAIN hist[1].plan

\* ------------------------------------------------------------------- C10
\* C10: an auto_plan call, in either mode and whether it completes or stops,
\* leaves every ledger entry, in memory and in the file, as it was.
C10_LedgerUntouched ==
    [][(ret'.op = "auto_plan" /\ nops' = nops + 1) =>
          items' = items /\ disk' = disk]_vars

\* a strict call that deducted from its shadow and stopped, the ledger being
\* stocked
C10_Witness ==
    /\ ret.op = "auto_plan"
    /\ constraints.mode = "pantry-first-strict"
    /\ ret.out = "stopped"
    /\ ret.filled > 0
    /\ Len(items) > 0
    /\ ShadowAfter(ret.visited, 1, _shadow_pantry_snapshot_canon(items))
          # _shadow_pantry_snapshot_canon(items)
\* ------------------------------------------------------------------- C11
\* C11: when the file write fails during an add, update, remove or cook_meal
\* call, the ledger in memory and in the file is what it was before the call
\* (for cook_meal: no line of the dish stays deducted).
C11_FailedWriteAborts ==
    [][(ret'.out = "raised" /\ nops' = nops + 1) =>
          items' = items /\ disk' = disk]_vars
\* ------------------------------------------------------------------- C12
\* C12: when the mirror rule matching the mutated (item, unit) is malformed,
\* add, update and remove still apply the primary mutation and save it: after
\* the call the file holds the ledger, and the mutated entry has the quantity
\* the same call gives without any rule.
PrimaryOnly(op, db, inp) ==
    IF op = "add" THEN add(db, NoRules, inp[1], inp[2], inp[3])
    ELSE IF op = "update" THEN update(db, NoRules, inp[1], inp[2], inp[3])
    ELSE remove(db, NoRules, inp[1], inp[2], inp[3])

C12_PrimarySavedDespiteRule ==
    [][(ret'.out = "mirror_raised" /\ nops' = nops + 1) =>
          /\ disk' = items'
          /\ DictGet(disk', _key(ret'.arg[1], ret'.arg[3]), 0)
               = DictGet(PrimaryOnly(ret'.op, Db, ret'.arg).db.items,
                         _key(ret'.arg[1], ret'.arg[3]), 0)]_vars
\* ------------------------------------------------------------------- C13
\* C13: in pantry-first-strict mode, when a fresh auto_plan call that stayed
\* within the ledger is followed directly by a continue call, the dishes of
\* the whole plan (those of the fresh call and those the continue call added)
\* require of every canonical (item, unit) at most what the ledger holds.
C13_ContinueWithinLedger ==
    [][(/\ FreshStrictPlanDone
        /\ \A k \in CatalogKeys :
              AssignedQty(ret.visited, k, 1)
                 <= DictGet(_shadow_pantry_snapshot_canon(items), k, 0)
        /\ nops' = nops + 1
        /\ ret'.op = "auto_plan"
        /\ ret'.arg.continue)
       => \A k \in CatalogKeys :
             AssignedQty(ret.visited, k, 1) + AssignedQty(ret'.visited, k, 1)
                <= DictGet(_shadow_pantry_snapshot_canon(items'), k, 0)]_vars
\* ------------------------------------------------------------------- C14
\* C14: an auto_plan call with continue = true leaves every slot that held a
\* dish before the call with the same dish, and leaves every day up to the
\* largest day index the plan had before the call exactly as it was.
C14_ContinueOnlyAppends ==
    [][(nops' = nops + 1 /\ ret'.op = "auto_plan" /\ ret'.arg.continue) =>
          /\ \A d \in DOMAIN plan : \A m \in DOMAIN plan[d] :
                plan[d][m] # "" =>
                   /\ d \in DOMAIN plan'
                   /\ m \in DOMAIN plan'[d]
                   /\ plan'[d][m] = plan[d][m]
          /\ \A d \in DOMAIN plan' :
                (\E e \in DOMAIN plan : d <= e) =>
                   d \in DOMAIN plan /\ plan'[d] = plan[d]]_vars

\* a continue call over a plan that already held a dish filled a slot of a
\* later day
C14_Witness ==
    /\ ret.op = "auto_plan"
    /\ ret.arg.continue
    /\ ret.filled >= 1
    /\ ret.visited[1][1] > 1
    /\ \E d \in DOMAIN plan : \E m \in DOMAIN plan[d] :
          d < ret.visited[1][1] /\ plan[d][m] # ""
\* ------------------------------------------------------------------- C15
\* C15: after any sequence of auto_plan and update_plan calls every plan slot
\* that is not empty names a dish of the catalog, and an update_plan call that
\* names a dish outside the catalog returns a not-found error.
InCatalog(dish) == Len(_load_recipe_by_name(catalog, dish)) > 0

C15_SlotsNameCatalogDishes ==
    /\ \A d \in DOMAIN plan : \A m \in DOMAIN plan[d] :
          plan[d][m] # "" => InCatalog(plan[d][m])
    /\ (ret.op = "update_plan" /\ ~InCatalog(ret.arg.recipe_name))
          => ret.out = "not_found"
\* ------------------------------------------------------------------- C16
\* C16: a quantity q added with a kilogram label is recorded as q * 1000 in
\* the g entry of the item (1 kg of rice adds 1000 to "rice (g)"), and a
\* requirement line of 1 kg resolves to 1000 at g.
KiloLabels == {"kg", "kilogram", "kilograms"}

C16_KiloScaled ==
    [][(/\ nops' = nops + 1
        /\ ret'.op = "add"
        /\ ret'.out = "added"
        /\ ret'.arg[3] \in KiloLabels)
       => /\ DictGet(items', _key(ret'.arg[1], "g"), 0)
               = DictGet(items, _key(ret'.arg[1], "g"), 0)
                 + 1000 * ret'.arg[2]
          /\ _recipe_requirements_canon(
                Recipe("r", 10, 10,
                       <<Ing(ret'.arg[1], ret'.arg[2], ret'.arg[3])>>))
               = <<<<canonical_key(ret'.arg[1]), "g", 1000 * ret'.arg[2]>>>>]_vars
\* ------------------------------------------------------------------- C17
\* C17: canonical_key is idempotent: applied to a name that canonical_key
\* itself returned, it returns that name unchanged.
C17_CanonicalKeyIdempotent ==
    (ret.op = "canonical_key" /\ nops >= 2) => ret.out = ret.arg
\* ------------------------------------------------------------------- C18
\* C18: the planner's feasibility check, the deficit computation and cook_meal
\* resolve a recipe and match it to the ledger alike: a dish that
\* _can_fulfill_strict_canon finds fully covered by the ledger has no deficit
\* against that ledger and no missing line when it is cooked against it.
CookedDish == planner_log[Len(planner_log)].dish

C18_CoveredMeansNoDeficitNoMissing ==
    [][(/\ nops' = nops + 1
        /\ ret'.op = "cook_meal"
        /\ ret'.out = "cooked"
        /\ _can_fulfill_strict_canon(RecOf(CookedDish'),
                                     _shadow_pantry_snapshot_canon(items)))
       => /\ ret'.missing = <<>>
          /\ _quantity_shopping_deficits(<<[Dinner |-> CookedDish']>>, disk,
                                         catalog) = <<>>]_vars
\* ------------------------------------------------------------------- C19
\* C19: cook_meal cooks the dish named in the payload whenever a name is
\* given, also when a (day, meal) slot is given with it, and the dish of the
\* named slot otherwise; when the slot is empty or the resolved dish is not in
\* the catalog it returns an error and leaves the ledger, the plan and the
\* cook log unchanged.
SlotDish(p) ==
    IF p.day \in DOMAIN plan THEN RowGet(plan[p.day], p.meal) ELSE ""

Resolved(p) == IF p.dish # "" THEN p.dish ELSE SlotDish(p)

C19_DishResolution ==
    [][(nops' = nops + 1 /\ ret'.op = "cook_meal") =>
          IF Resolved(ret'.arg) = "" \/ ~InCatalog(Resolved(ret'.arg))
          THEN /\ ret'.out \in {"error_payload", "error_no_dish",
                               "error_not_found"}
               /\ items' = items
               /\ disk' = disk
               /\ plan' = plan
               /\ planner_log' = planner_log
          ELSE /\ ret'.out = "cooked"
               /\ Len(planner_log') = Len(planner_log) + 1
               /\ CookedDish' = Resolved(ret'.arg)
               /\ Len(ret'.lines) = Len(RecOf(Resolved(ret'.arg)).ingredients)
               /\ \A i \in 1..Len(ret'.lines) :
                     ret'.lines[i].need
                        = RecOf(Resolved(ret'.arg)).ingredients[i].quantity]_vars

\* a dish was cooked by its name while the slot named with it holds another
\* dish
C19_Witness ==
    /\ ret.op = "cook_meal"
    /\ ret.out = "cooked"
    /\ ret.arg.dish # ""
    /\ SlotDish(ret.arg) \notin {"", ret.arg.dish}
    /\ CookedDish = ret.arg.dish
\* ------------------------------------------------------------------- C20
\* C20: cook_meal never modifies the plan: after any cook_meal call, cooked
\* or answered with an error, every plan slot holds what it held before, the
\* slot that was cooked included.
C20_CookLeavesPlan ==
    [][(nops' = nops + 1 /\ ret'.op = "cook_meal") => plan' = plan]_vars

\* the dish of a named slot was cooked and the slot still holds it
C20_Witness ==
    /\ ret.op = "cook_meal"
    /\ ret.out = "cooked"
    /\ ret.arg.dish = ""
    /\ SlotDish(ret.arg) = CookedDish
    /\ Len(ret.deducted) > 0
\* ------------------------------------------------------------------- C21
\* C21: with allow_repeats = false, no slot of one auto_plan call is assigned
\* the dish of the slot the call filled immediately before it, in either mode
\* and through either pass.
C21_NoImmediateRepeat ==
    (ret.op = "auto_plan" /\ ~constraints.allow_repeats) =>
       \A i \in 1..(Len(ret.visited) - 1) :
          ret.visited[i][3] # "" => ret.visited[i + 1][3] # ret.visited[i][3]

\* a call under allow_repeats = false filled three slots in a row and gave
\* the third the dish of the first
C21_Witness ==
    /\ ret.op = "auto_plan"
    /\ ~constraints.allow_repeats
    /\ Len(ret.visited) >= 3
    /\ ret.visited[1][3] # ""
    /\ ret.visited[2][3] # ""
    /\ ret.visited[3][3] = ret.visited[1][3]
\* ------------------------------------------------------------------- C22
\* C22: get_shopping_list is a function of the plan, the pantry and the
\* catalog: called again directly after itself it returns the same deficit
\* list in the same order, and no call changes the plan or the ledger.
C22_ShoppingListPure ==
    [][(nops' = nops + 1 /\ ret'.op = "get_shopping_list") =>
          /\ plan' = plan
          /\ items' = items
          /\ disk' = disk
          /\ catalog' = catalog
          /\ (ret.op = "get_shopping_list" =>
                ret'.out = ret.out /\ ret'.deficits = ret.deficits)]_vars

\* a second call in a row returned a list of two or more deficits
C22_Witness ==
    /\ ret.op = "get_shopping_list"
    /\ ret.arg.after = "get_shopping_list"
    /\ ret.out = "listed"
    /\ Len(ret.deficits) >= 2
\* ------------------------------------------------------------------- C23
\* C23: update(item, q, unit) with q >= 0 leaves the entry at exactly q
\* (absent when q = 0) and every mirrored target unit at the multiple of the
\* rule's step nearest to q * factor (absent when that is zero), whatever they
\* held before; with q < 0 it is rejected and the ledger stays as it was.
Abs(x) == IF x < 0 THEN 0 - x ELSE x

RoundedToStep(v, q, rule) ==
    /\ v >= 0
    /\ rule.round > 0 => v % rule.round = 0
    /\ 2 * Abs(v * rule.den - q * rule.num)
          <= (IF rule.round > 0 THEN rule.round ELSE 1) * rule.den

C23_SetOverwrites ==
    [][(nops' = nops + 1 /\ ret'.op = "update") =>
          LET item == ret'.arg[1]
              q    == ret'.arg[2]
              unit == ret'.arg[3]
              rs   == _alt_transforms_for(rules, item, unit)
          IN IF q < 0
             THEN ret'.out = "invalid" /\ items' = items /\ disk' = disk
             ELSE /\ ret'.out = "set"
                  /\ disk' = items'
                  /\ DictGet(items', _key(item, unit), 0) = q
                  /\ DictHas(items', _key(item, unit)) <=> q > 0
                  /\ \A i \in 1..Len(rs) :
                        /\ RoundedToStep(DictGet(items', _key(item, rs[i].to), 0),
                                         q, rs[i])
                        /\ DictHas(items', _key(item, rs[i].to))
                             <=> DictGet(items', _key(item, rs[i].to), 0) > 0]_vars

\* one bunch was set where two were held: the mirrored gram entry, 250
\* before, holds what one bunch gives
C23_Witness ==
    /\ ret.op = "update"
    /\ ret.out = "set"
    /\ ret.arg = <<"leafybunch", 1, "count">>
    /\ ret.had = 2
    /\ rules = LeafyRules
    /\ DictGet(items, LeafyCount, 0) = 1
    /\ DictGet(items, LeafyGrams, 0) \in {120, 130}
\* ------------------------------------------------------------------- C24
\* C24: in a fresh pantry-first-strict auto_plan call whose once-coverable
\* set (the eligible dishes every requirement line of which the initial
\* ledger covers) is not empty, the first slot holds the dish of that set
\* that is first by tightness (least on-hand / needed over its lines), then
\* by prep + cook time, then by name.
Lines(r) == _recipe_requirements_canon(r)

Have(l) == OnHand(items, <<l[1], l[2]>>, 1)

OnceCoverable ==
    {i \in 1..Len(catalog) :
        /\ _recipe_eligible_by_filters(catalog[i], constraints)
        /\ \A n \in 1..Len(Lines(catalog[i])) :
              Have(Lines(catalog[i])[n]) >= Lines(catalog[i])[n][3]}

\* r is tighter than s: some line of r has a smaller have / need than every
\* line of s
Tighter(r, s) ==
    \E n \in 1..Len(Lines(r)) : \A m \in 1..Len(Lines(s)) :
       Have(Lines(r)[n]) * Lines(s)[m][3] < Have(Lines(s)[m]) * Lines(r)[n][3]

ComesBefore(r, s) ==
    \/ Tighter(r, s)
    \/ /\ ~Tighter(s, r)
       /\ \/ r.prep_time_min + r.cook_time_min < s.prep_time_min + s.cook_time_min
          \/ /\ r.prep_time_min + r.cook_time_min
                  = s.prep_time_min + s.cook_time_min
             /\ StrLess(r.name, s.name)

C24_FirstSlotTightest ==
    (FreshStrictPlanDone /\ OnceCoverable # {}) =>
       \E i \in OnceCoverable :
          /\ Len(ret.visited) >= 1
          /\ ret.visited[1][3] = catalog[i].name
          /\ \A j \in OnceCoverable \ {i} : ComesBefore(catalog[i], catalog[j])

\* the first slot went to a dish that is not the first coverable one by name:
\* tightness, or time among equally tight dishes, put it first
C24_Witness ==
    /\ FreshStrictPlanDone
    /\ Cardinality(OnceCoverable) >= 3
    /\ \E i \in OnceCoverable : \E j \in OnceCoverable :
          /\ ret.visited[1][3] = catalog[i].name
          /\ StrLess(catalog[j].name, catalog[i].name)
          /\ ~Tighter(catalog[i], catalog[j])
\* ------------------------------------------------------------------- C25
\* C25: every dish an auto_plan call assigns, in either mode and by either
\* pass, passes the filters of the current constraints: its cuisine is the
\* cuisine asked for when one is set, its diet is the diet asked for, "any"
\* or unlabelled when one is set, and its prep + cook time is at most
\* max_time when that is set.
PassesFilters(r) ==
    /\ constraints.cuisine # "" => r.cuisine = constraints.cuisine
    /\ constraints.diet # "" => r.diet \in {constraints.diet, "any", ""}
    /\ constraints.max_time # 0 =>
          r.prep_time_min + r.cook_time_min <= constraints.max_time

C25_AssignedPassFilters ==
    ret.op = "auto_plan" =>
       \A i \in 1..Len(ret.visited) :
          ret.visited[i][3] # "" =>
             /\ InCatalog(ret.visited[i][3])
             /\ PassesFilters(RecOf(ret.visited[i][3]))

\* under a filter that some recipe of the catalog fails, a call filled two
\* slots or more
C25_Witness ==
    /\ ret.op = "auto_plan"
    /\ ret.filled >= 2
    /\ \E i \in 1..Len(catalog) :
          /\ ~PassesFilters(catalog[i])
          /\ StrLess(catalog[i].name, ret.visited[1][3])
\* ------------------------------------------------------------------- C26
\* C26: an auto_plan call appends to calc_log one entry for each slot it
\* fills, in order, naming the slot, the dish and the pass, and nothing else;
\* update_plan and cook_meal keep every calc_log entry already there;
\* a cook_meal that cooked appends to planner_log one entry with the dish,
\* what was used and what was missing, and no other call touches planner_log.
PassTags == {"100% pantry coverage (once-each pass)", "100% pantry coverage",
             "freeform pick"}

FilledSlots(visited) == SelectSeq(visited, LAMBDA v : v[3] # "")

C26_AuditAppendOnly ==
    [][(nops' = nops + 1
        /\ ret'.op \in {"auto_plan", "update_plan", "cook_meal"}) =>
          /\ Len(calc_log') >= Len(calc_log)
          /\ SubSeq(calc_log', 1, Len(calc_log)) = calc_log
          /\ Len(planner_log') >= Len(planner_log)
          /\ SubSeq(planner_log', 1, Len(planner_log)) = planner_log
          /\ ret'.op = "auto_plan" =>
                /\ planner_log' = planner_log
                /\ Len(calc_log') = Len(calc_log) + ret'.filled
                /\ Len(FilledSlots(ret'.visited)) = ret'.filled
                /\ \A i \in 1..ret'.filled :
                      LET e == calc_log'[Len(calc_log) + i]
                          v == FilledSlots(ret'.visited)[i]
                      IN /\ e.slot = <<v[1], v[2]>>
                         /\ e.dish = v[3]
                         /\ e.reason \in PassTags
                         /\ e.reason = "freeform pick"
                               <=> constraints.mode = "freeform"
          /\ ret'.op = "cook_meal" =>
                /\ calc_log' = calc_log
                /\ IF ret'.out = "cooked"
                   THEN planner_log'
                          = Append(planner_log,
                               [event |-> "cooked",
                                dish |-> Resolved(ret'.arg),
                                deducted |-> ret'.deducted,
                                missing |-> ret'.missing])
                   ELSE planner_log' = planner_log]_vars

\* over a calc_log that already held an entry, one call appended an entry of
\* the once-each pass and an entry of the second pass
C26_Witness ==
    /\ ret.op = "auto_plan"
    /\ ret.filled >= 2
    /\ Len(calc_log) > ret.filled
    /\ \E i, j \in (Len(calc_log) - ret.filled + 1)..Len(calc_log) :
          /\ calc_log[i].reason = "100% pantry coverage (once-each pass)"
          /\ calc_log[j].reason = "100% pantry coverage"
\* ------------------------------------------------------------------- C27
\* C27: after every add, update or remove call, whether it returned, was
\* rejected or raised while computing a mirror update, the pantry file holds
\* exactly the entries of the in-memory ledger.
C27_FileEqualsLedger == disk = items
\* ------------------------------------------------------------------- C28
\* C28: after a fresh pantry-first-strict auto_plan call, cooking the filled
\* slots in plan order with nothing else done in between (Day1 Dinner right
\* after the call, then Day2 Dinner) reports no missing line, mirror rules
\* included.
CookedInPlanOrder ==
    /\ Len(hist) = 1
    /\ hist[1].plan = plan
    /\ hist[1].constraints.mode = "pantry-first-strict"
    /\ \/ nops = 1 /\ ret.op = "auto_plan" /\ ret'.arg.day = 1
       \/ /\ nops = 2
          /\ ret.op = "cook_meal"
          /\ ret.out = "cooked"
          /\ ret.arg.dish = ""
          /\ ret.arg.day = 1
          /\ ret'.arg.day = 2

C28_PlannedCooksNothingMissing ==
    [][(/\ nops' = nops + 1
        /\ ret'.op = "cook_meal"
        /\ ret'.out = "cooked"
        /\ ret'.arg.dish = ""
        /\ CookedInPlanOrder)
       => ret'.missing = <<>>]_vars
\* ------------------------------------------------------------------- C29
\* C29: for a mirrored (item, unit) on an empty ledger, add(a) followed by
\* add(b) leaves the same primary entry and the same entry in every mirrored
\* target unit as a single add(a + b) and as update(a + b) on the empty
\* ledger.
SameEntries(its, other, item, unit) ==
    /\ DictGet(its, _key(item, unit), 0) = DictGet(other, _key(item, unit), 0)
    /\ \A i \in 1..Len(_alt_transforms_for(rules, item, unit)) :
          LET k == _key(item, _alt_transforms_for(rules, item, unit)[i].to)
          IN  DictGet(its, k, 0) = DictGet(other, k, 0)

TwoAddsOnEmpty ==
    /\ nops = 1
    /\ nops' = 2
    /\ ret.op = "add"
    /\ ret.out = "added"
    /\ ret'.op = "add"
    /\ ret'.out = "added"
    /\ _key(ret.arg[1], ret.arg[3]) = _key(ret'.arg[1], ret'.arg[3])
    /\ _alt_transforms_for(rules, ret.arg[1], ret.arg[3]) # <<>>

C29_MirrorPathIndependent ==
    [][TwoAddsOnEmpty =>
         LET item == ret.arg[1]
             unit == ret.arg[3]
             total == ret.arg[2] + ret'.arg[2]
         IN  /\ SameEntries(items',
                            add(EmptyDb, rules, item, total, unit).db.items,
                            item, unit)
             /\ SameEntries(items',
                            update(EmptyDb, rules, item, total, unit).db.items,
                            item, unit)]_vars
\* ------------------------------------------------------------------- C30
\* C30: with allow_repeats = false, the first slot an auto_plan call with
\* continue = true fills does not get the dish of the last filled slot of the
\* plan that existed before the call.
SlotOrder == <<"Breakfast", "Lunch", "Dinner">>

FilledBefore(p) ==
    {s \in (DOMAIN p) \X (1..Len(SlotOrder)) :
        /\ SlotOrder[s[2]] \in DOMAIN p[s[1]]
        /\ p[s[1]][SlotOrder[s[2]]] # ""}

LastFilledDish(p) ==
    LET last == CHOOSE s \in FilledBefore(p) :
                   \A t \in FilledBefore(p) :
                      t[1] < s[1] \/ (t[1] = s[1] /\ t[2] <= s[2])
    IN  p[last[1]][SlotOrder[last[2]]]

FirstFilledDish(visited) ==
    LET first == CHOOSE i \in 1..Len(visited) :
                    /\ visited[i][3] # ""
                    /\ \A j \in 1..(i - 1) : visited[j][3] = ""
    IN  visited[first][3]

C30_NoRepeatAcrossContinue ==
    [][(/\ nops' = nops + 1
        /\ ret'.op = "auto_plan"
        /\ ret'.arg.continue
        /\ ~constraints.allow_repeats
        /\ FilledBefore(plan) # {}
        /\ ret'.filled >= 1)
       => FirstFilledDish(ret'.visited) # LastFilledDish(plan)]_vars
====
